---- MODULE Spec2Model ----
(***************************************************************************)
(* Orchestration core of the Cicada AI nodes (src/nodes.py): the token     *)
(* manager CicadaAuth, the RateLimiter, api_request / api_json_request,    *)
(* the VoiceCloneCache and the cache branch of clone_and_synthesize.       *)
(*                                                                         *)
(* Conventions.                                                            *)
(*  - Time is counted in ticks of half a second (TPS ticks per second), so *)
(*    that the 0.5 s interval of the "tts" category is one tick.  The      *)
(*    clock `now` models time.time() and never runs backwards.             *)
(*  - Credential strings are sequences of one-character strings, so that   *)
(*    str.strip(), the substring test and the f-string of the fingerprint  *)
(*    are computed as the code computes them.  hashlib.md5 is modelled as  *)
(*    injective: the fingerprint is the hashed string itself.              *)
(*  - Python's None is the string NoneVal where a token is expected and    *)
(*    the empty sequence where a fingerprint is expected.                  *)
(***************************************************************************)
EXTENDS Integers, Sequences, FiniteSets, TLC

\* ------------------------------------------------------------------ bounds
TPS == 2
StartTime == 20
MaxEnv == 2
MaxRefresh == 2
MaxCalls == 3
MaxVoices == 2
PollCountCap == 12
\* Stage lists: at most MaxStages stages, weights 1..MaxWeight
MaxStages == 3
MaxWeight == 3

\* --------------------------------------------------------------- constants
\* get_token: "now < cls._token_expire - 300"
EarlyRefresh == 300 * TPS
\* _refresh_token: "time.time() + 24 * 3600"
TokenTTL == 24 * 3600 * TPS

NoneVal == "<None>"
EmptyStr == ""
NoHash == << >>
NoConfig == [app_id |-> << >>, secret_key |-> << >>]

\* Python truthiness of an optional string (None and "" are falsy)
Truthy(s) == s # NoneVal /\ s # EmptyStr

\* ------------------------------------------------------- string helpers
RECURSIVE LStrip(_)
LStrip(s) == IF s # << >> /\ Head(s) = " " THEN LStrip(Tail(s)) ELSE s

RECURSIVE RStrip(_)
RStrip(s) ==
    IF s # << >> /\ s[Len(s)] = " " THEN RStrip(SubSeq(s, 1, Len(s) - 1)) ELSE s

\* str.strip()
Strip(s) == RStrip(LStrip(s))

\* "sub in s"
Contains(s, sub) ==
    \E i \in 1..(Len(s) - Len(sub) + 1) : SubSeq(s, i, i + Len(sub) - 1) = sub

YourPrefix == <<"y", "o", "u", "r", "_">>

\* --------------------------------------------------------- config.json
\* The contents config.json can have: absent, not JSON, or a JSON object
\* (app_id / secret_key as written by the user; a missing key reads as "").
CfgA == [kind |-> "json", app_id |-> <<"k", "1">>, secret_key |-> <<"s", "1">>]
CfgAPadded ==
    [kind |-> "json", app_id |-> <<" ", "k", "1", " ">>, secret_key |-> <<"s", "1">>]
CfgB == [kind |-> "json", app_id |-> <<"k", "2">>, secret_key |-> <<"s", "2">>]
CfgEmpty == [kind |-> "json", app_id |-> <<" ">>, secret_key |-> <<"s", "1">>]
CfgPlaceholder ==
    [kind |-> "json", app_id |-> <<"y", "o", "u", "r", "_", "i", "d">>,
     secret_key |-> <<"s", "1">>]
CfgMissing == [kind |-> "missing", app_id |-> << >>, secret_key |-> << >>]
CfgBadJson == [kind |-> "badjson", app_id |-> << >>, secret_key |-> << >>]

ConfigFiles ==
    {CfgA, CfgAPadded, CfgB, CfgEmpty, CfgPlaceholder, CfgMissing, CfgBadJson}

\* ------------------------------------------------------------ variables
VARIABLES
    now,          \* time.time(), in ticks
    env,          \* number of clock advances and out-of-band file edits taken
    config_file,  \* contents of CONFIG_FILE
    token_file,   \* contents of TOKEN_CACHE_FILE
    auth,         \* the class attributes of CicadaAuth
    issued,       \* remote side: issued[i] is what the i-th token was issued for
    gt,           \* observation of the get_token() call that just ended
    reset_seen,   \* reset() ran and no get_token() has run since
    jr,           \* the api_json_request call in progress or just ended
    _timestamps,  \* RateLimiter._timestamps
    rl,           \* observation of the RateLimiter.wait() call that just ended
    calls,        \* number of rate-limited calls made (bounded)
    rq,           \* the api_request call in progress or just ended
    _cache,       \* VoiceCloneCache._cache
    cache_file,   \* contents of VOICE_CLONE_CACHE_FILE
    vc,           \* observation of the VoiceCloneCache call that just ended
    cs,           \* the clone_and_synthesize invocation in progress or just ended
    voices,       \* remote side: number of voices created
    pl,           \* the job poll in progress or just ended
    up,           \* the file sync poll of upload_file in progress or just ended
    pg,           \* a CicadaProgress instance and what it last displayed
    tw,           \* two invocations inside RateLimiter.wait() at the same time
    ta,           \* two invocations inside get_token() at the same time
    rf,           \* the api_json_request call _refresh_token made last
    ls,           \* the create_lip_sync invocation in progress or just ended
    ub            \* the UploadProgress body of upload_file and the PUT that sends it

timeVars == <<now, env>>
authVars == <<config_file, token_file, auth, issued, gt, reset_seen, jr>>
rateVars == <<_timestamps, rl, calls>>
reqVars == <<rq>>
cacheVars == <<_cache, cache_file, vc>>
cloneVars == <<cs, voices>>
jobVars == <<pl, up, pg>>
overlapVars == <<tw, ta, rf>>
nodeVars == <<ls, ub>>
vars ==
    <<timeVars, authVars, rateVars, reqVars, cacheVars, cloneVars, jobVars,
      overlapVars, nodeVars>>

\* What the token manager and api_json_request leave alone
notAuth == <<rateVars, reqVars, cacheVars, cloneVars, jobVars, overlapVars, nodeVars>>

\* ------------------------------------------------------------ CicadaAuth
AuthInit ==
    [_config |-> NoConfig, _config_hash |-> NoHash, _token |-> NoneVal,
     _token_expire |-> 0, _token_config_hash |-> NoHash]

_compute_config_hash(app_id, secret_key) == app_id \o <<":">> \o secret_key

\* _load_config: the error it raises ("none" when it returns), and the
\* attributes it sets when it returns.
\* _load_config without the placeholder test
LoadConfigErrorLax(f) ==
    IF f.kind = "missing" THEN "FileNotFoundError"
    ELSE IF f.kind = "badjson" THEN "BadJson"
    ELSE IF Strip(f.app_id) = << >> \/ Strip(f.secret_key) = << >> THEN "EmptyCredential"
    ELSE "none"

LoadConfigError(f) ==
    IF f.kind = "missing" THEN "FileNotFoundError"
    ELSE IF f.kind = "badjson" THEN "BadJson"
    ELSE IF Strip(f.app_id) = << >> \/ Strip(f.secret_key) = << >> THEN "EmptyCredential"
    ELSE IF Contains(Strip(f.app_id), YourPrefix) \/ Contains(Strip(f.secret_key), YourPrefix)
         THEN "Placeholder"
    ELSE "none"

_load_config(a, f) ==
    IF LoadConfigError(f) # "none" THEN a
    ELSE [a EXCEPT
            !._config = [app_id |-> Strip(f.app_id), secret_key |-> Strip(f.secret_key)],
            !._config_hash = _compute_config_hash(Strip(f.app_id), Strip(f.secret_key))]

TokenFileMissing ==
    [kind |-> "missing", access_token |-> NoneVal, expire_time |-> 0, config_hash |-> NoHash]
TokenFileCorrupt ==
    [kind |-> "corrupt", access_token |-> NoneVal, expire_time |-> 0, config_hash |-> NoHash]

_load_token_cache(a, tf) ==
    IF tf.kind = "missing" THEN a
    ELSE IF tf.kind = "corrupt"
         THEN [a EXCEPT !._token = NoneVal, !._token_expire = 0,
                        !._token_config_hash = NoHash]
    ELSE [a EXCEPT !._token = tf.access_token, !._token_expire = tf.expire_time,
                   !._token_config_hash = tf.config_hash]

\* A cache write that leaves the expiry out of the record
SaveWithoutExpiry(a, tf, save) ==
    IF save = "ok"
    THEN [kind |-> "json", access_token |-> a._token,
          expire_time |-> 0, config_hash |-> a._config_hash]
    ELSE IF save = "truncated" THEN TokenFileCorrupt
    ELSE tf

\* A cache write that leaves the fingerprint out of the record
SaveWithoutFingerprint(a, tf, save) ==
    IF save = "ok"
    THEN [kind |-> "json", access_token |-> a._token,
          expire_time |-> a._token_expire, config_hash |-> NoHash]
    ELSE IF save = "truncated" THEN TokenFileCorrupt
    ELSE tf

\* _save_token_cache: best effort.  save is "ok", "unchanged" (the write
\* could not start) or "truncated" (the file was opened and the dump failed).
_save_token_cache(a, tf, save) ==
    IF save = "ok"
    THEN [kind |-> "json", access_token |-> a._token,
          expire_time |-> a._token_expire, config_hash |-> a._config_hash]
    ELSE IF save = "truncated" THEN TokenFileCorrupt
    ELSE tf

\* A fingerprint comparison that never reports a change
ConfigChangedNever(a) == FALSE

_config_changed(a) == a._config_hash # a._token_config_hash

\* A freshness test without the five-minute margin
TokenUsableNoMargin(a, t) == Truthy(a._token) /\ t < a._token_expire

\* The freshness test of get_token: "cls._token and now < cls._token_expire - 300"
TokenUsable(a, t) == Truthy(a._token) /\ t < a._token_expire - EarlyRefresh

InvalidateToken(a) ==
    [a EXCEPT !._token = NoneVal, !._token_expire = 0, !._token_config_hash = NoHash]

\* reset()
ResetAuth(a) == AuthInit

\* ----------------------------------------------------------- the remote
\* The access-token endpoint, as _refresh_token sees it through
\* api_json_request(_retried_auth=True): the call raises (network failure
\* or any non-zero code, the auth codes included), or returns an envelope
\* whose data.access_token is absent, empty, or a newly issued token.
TokName(i) == "tok" \o ToString(i)

RefreshResponses(n) ==
    {[kind |-> "raise", access_token |-> NoneVal],
     [kind |-> "ok", access_token |-> NoneVal],
     [kind |-> "ok", access_token |-> EmptyStr],
     [kind |-> "ok", access_token |-> TokName(n + 1)]}

SaveOutcomes == {"ok", "unchanged", "truncated"}

\* get_config(): loads config.json only when nothing is cached
get_config(a, cf) == IF a._config = NoConfig THEN _load_config(a, cf) ELSE a

\* A refresh that writes the cache file before it looks at the token
RefreshSavesFirst(a, cf, tf, t, resp, save) ==
    IF a._config = NoConfig /\ LoadConfigError(cf) # "none"
    THEN [auth |-> a, token_file |-> tf, raised |-> LoadConfigError(cf),
          requested |-> FALSE, sent |-> NoConfig]
    ELSE
      LET a1 == get_config(a, cf)
          a2 == [a1 EXCEPT !._token = resp.access_token,
                           !._token_expire = t + TokenTTL,
                           !._token_config_hash = a1._config_hash]
      IN  IF resp.kind = "raise"
          THEN [auth |-> a1, token_file |-> tf, raised |-> "RequestFailed",
                requested |-> TRUE, sent |-> a1._config]
          ELSE [auth |-> a2, token_file |-> _save_token_cache(a2, tf, save),
                raised |-> IF Truthy(a2._token) THEN "none" ELSE "EmptyAccessToken",
                requested |-> TRUE, sent |-> a1._config]

\* _refresh_token.  t is time.time() read after the request returned.
\* Result: the attributes, the token file, the error raised ("none" when
\* it returns), whether the request was sent and with which credentials.
_refresh_token(a, cf, tf, t, resp, save) ==
    IF a._config = NoConfig /\ LoadConfigError(cf) # "none"
    THEN [auth |-> a, token_file |-> tf, raised |-> LoadConfigError(cf),
          requested |-> FALSE, sent |-> NoConfig]
    ELSE
      LET a1 == get_config(a, cf)
          a2 == [a1 EXCEPT !._token = resp.access_token,
                           !._token_expire = t + TokenTTL,
                           !._token_config_hash = a1._config_hash]
      IN  IF resp.kind = "raise"
          THEN [auth |-> a1, token_file |-> tf, raised |-> "RequestFailed",
                requested |-> TRUE, sent |-> a1._config]
          ELSE IF ~Truthy(a2._token)
          THEN [auth |-> a2, token_file |-> tf, raised |-> "EmptyAccessToken",
                requested |-> TRUE, sent |-> a1._config]
          ELSE [auth |-> a2, token_file |-> _save_token_cache(a2, tf, save),
                raised |-> "none", requested |-> TRUE, sent |-> a1._config]

\* A get_token that never looks at the token cache file
SkipDiskAlways(a) == TRUE
\* The token is still held in memory after step 1 and step 2 of get_token
\* failed to return it: step 3 (the disk cache) is skipped.
SkipDisk(a) == a._token # NoneVal

\* get_token().  t0 is time.time() at entry, t1 at the refresh.
\* Result: as _refresh_token, plus the value returned (NoneVal when it
\* raises) and the path taken.
get_token(a, cf, tf, t0, t1, resp, save) ==
    IF LoadConfigError(cf) # "none"
    THEN [auth |-> a, token_file |-> tf, raised |-> LoadConfigError(cf),
          requested |-> FALSE, sent |-> NoConfig, ret |-> NoneVal, path |-> "config_error"]
    ELSE
      LET a0 == _load_config(a, cf)
          a1 == IF _config_changed(a0) THEN InvalidateToken(a0) ELSE a0
      IN  IF TokenUsable(a1, t0)
          THEN [auth |-> a1, token_file |-> tf, raised |-> "none",
                requested |-> FALSE, sent |-> NoConfig, ret |-> a1._token, path |-> "memory"]
          ELSE
            LET a2 == IF SkipDisk(a1) THEN a1 ELSE _load_token_cache(a1, tf)
            IN  IF ~SkipDisk(a1) /\ TokenUsable(a2, t0) /\ ~_config_changed(a2)
                THEN [auth |-> a2, token_file |-> tf, raised |-> "none",
                      requested |-> FALSE, sent |-> NoConfig, ret |-> a2._token,
                      path |-> "disk"]
                ELSE
                  LET a3 == IF ~SkipDisk(a1) /\ _config_changed(a2)
                            THEN InvalidateToken(a2) ELSE a2
                      r == _refresh_token(a3, cf, tf, t1, resp, save)
                  IN  [auth |-> r.auth, token_file |-> r.token_file, raised |-> r.raised,
                       requested |-> r.requested, sent |-> r.sent,
                       ret |-> IF r.raised = "none" THEN r.auth._token ELSE NoneVal,
                       path |-> "refresh"]

\* Fingerprint of the credentials config.json holds (NoHash when invalid)
DiskFingerprint(cf) ==
    IF LoadConfigError(cf) # "none" THEN NoHash
    ELSE _compute_config_hash(Strip(cf.app_id), Strip(cf.secret_key))

\* A token is held (in memory, or in the token cache file) that fails the
\* freshness test at time t
HeldStale(a, tf, t) ==
    \/ Truthy(a._token) /\ t >= a._token_expire - EarlyRefresh
    \/ tf.kind = "json" /\ Truthy(tf.access_token) /\ t >= tf.expire_time - EarlyRefresh

\* A token that passes the freshness test is held (in memory, or in the
\* token cache file) under another fingerprint than fp
HeldOther(a, tf, t, fp) ==
    \/ Truthy(a._token) /\ t < a._token_expire - EarlyRefresh /\ a._token_config_hash # fp
    \/ tf.kind = "json" /\ Truthy(tf.access_token) /\ t < tf.expire_time - EarlyRefresh
         /\ tf.config_hash # fp

\* What one get_token() call did, as the claims observe it: a and tf are
\* the attributes and the token file before the call, r its result.
Observe(r, a, tf, t0, cf, afterReset) ==
    [start |-> t0, ret |-> r.ret, raised |-> r.raised, path |-> r.path,
     requested |-> r.requested, expire |-> r.auth._token_expire,
     bound |-> r.auth._token_config_hash, disk_fp |-> DiskFingerprint(cf),
     held_stale |-> HeldStale(a, tf, t0),
     held_other |-> HeldOther(a, tf, t0, DiskFingerprint(cf)),
     after_reset |-> afterReset, called |-> TRUE]

NoCall ==
    [start |-> 0, ret |-> NoneVal, raised |-> "none", path |-> "none",
     requested |-> FALSE, expire |-> 0, bound |-> NoHash, disk_fp |-> NoHash,
     held_stale |-> FALSE, held_other |-> FALSE,
     after_reset |-> FALSE, called |-> FALSE]

\* The remote's record of the tokens it issued: the fingerprint of the
\* credentials each was issued for.
IssuedAfter(r, iss) ==
    IF r.raised = "none" /\ r.path = "refresh"
    THEN Append(iss, _compute_config_hash(r.sent.app_id, r.sent.secret_key))
    ELSE iss

Latencies == {0, 1}

RefreshRaises == [kind |-> "raise", access_token |-> NoneVal]

\* The inputs that decide a get_token() call on attributes a: the answer of
\* the access-token endpoint and the outcome of the cache write, when the
\* call gets that far; n tokens were issued so far.
GetTokenInputs(a, cf, tf, t, n) ==
    IF ~get_token(a, cf, tf, t, t, RefreshRaises, "ok").requested
    THEN {<<RefreshRaises, "ok">>}
    ELSE {<<resp, "ok">> : resp \in {x \in RefreshResponses(n) : ~Truthy(x.access_token)}}
           \cup (IF n < MaxRefresh
                 THEN {<<resp, save>> :
                         resp \in {x \in RefreshResponses(n) : Truthy(x.access_token)},
                         save \in SaveOutcomes}
                 ELSE {})

\* ------------------------------------------------------ api_json_request
\* What one send through api_request can give api_json_request: api_request
\* raises (net = "error"), or a JSON envelope with a code comes back.
AuthCodes == {10400, 10401}
ResponseCodes == {0, 10400, 10401, 50000}
SendOutcomes ==
    {[net |-> "error", code |-> 0]} \cup {[net |-> "ok", code |-> c] : c \in ResponseCodes}

\* An auth retry taken on every non-zero code
AuthRetryAnyCode(code, retried) == code # 0 /\ ~retried

\* An auth retry that is not limited to the first failure
AuthRetryAlways(code, retried) == code \in AuthCodes

\* "if code in (10400, 10401) and not _retried_auth"
AuthRetryAllowed(code, retried) == code \in AuthCodes /\ ~retried

\* A re-issue that keeps the rejected token in the header
ReissueHeaderKept(old, new) == old

\* headers["access_token"] = new_token (every caller passes this header)
ReissueHeader(old, new) == new

\* The texts of the errors api_json_request raises, as the fragments they
\* are made of
RequestFailedMsg == {"request_failed"}
BusinessErrorMsg == {"api_request_failed", "code", "server_msg"}
AuthFailedMsg ==
    {"token_still_rejected", "CONFIG_FILE", "api_keys_url", "code", "server_msg"}
RefreshFailedMsg(cause) == {"refresh_failed", "CONFIG_FILE", "api_keys_url"} \cup cause
GetTokenErrorMsg(kind) == {kind}

\* An exception raised inside the re-issued call passes through the
\* "except Exception as refresh_err" of the first call
Raised(retried, msg) == IF retried THEN RefreshFailedMsg(msg) ELSE msg

JrIdle ==
    [pc |-> "idle", retried |-> FALSE, hdr |-> NoneVal, sends |-> 0,
     last |-> [net |-> "ok", code |-> 0], log |-> << >>, err |-> {}]

Ev(e, tok) == [ev |-> e, tok |-> tok]

\* One pass through the body of api_json_request for the call state j: the
\* request is sent with header token j.hdr, o comes back.  On an auth code
\* that may be retried, reset() and get_token() run (r is what get_token
\* gives on the reset attributes) and the call goes on to the re-issue.
JsonPass(j, o, r) ==
    LET j1 == [j EXCEPT !.sends = @ + 1, !.last = o,
                        !.log = Append(@, Ev("send", j.hdr))]
    IN  IF o.net = "error"
        THEN [j1 EXCEPT !.pc = "raised", !.err = Raised(j.retried, RequestFailedMsg)]
        ELSE IF o.code = 0
        THEN [j1 EXCEPT !.pc = "returned"]
        ELSE IF AuthRetryAllowed(o.code, j.retried)
        THEN IF r.raised # "none"
             THEN [j1 EXCEPT !.pc = "raised",
                             !.log = @ \o <<Ev("reset", NoneVal), Ev("get_token_raised", NoneVal)>>,
                             !.err = Raised(TRUE, Raised(j.retried, GetTokenErrorMsg(r.raised)))]
             ELSE [j1 EXCEPT !.pc = "send", !.retried = TRUE,
                             !.hdr = ReissueHeader(j.hdr, r.ret),
                             !.log = @ \o <<Ev("reset", NoneVal), Ev("get_token", r.ret)>>]
        ELSE IF o.code \in AuthCodes
        THEN [j1 EXCEPT !.pc = "raised", !.err = Raised(j.retried, AuthFailedMsg)]
        ELSE [j1 EXCEPT !.pc = "raised", !.err = Raised(j.retried, BusinessErrorMsg)]

\* The result of a get_token() that was not called
NotCalled ==
    [auth |-> AuthInit, token_file |-> TokenFileMissing, raised |-> "none",
     requested |-> FALSE, sent |-> NoConfig, ret |-> NoneVal, path |-> "none"]

\* The pass as an action on the program state
JsonStep(j) ==
    \/ \E o \in SendOutcomes :
         /\ ~(o.net = "ok" /\ AuthRetryAllowed(o.code, j.retried))
         /\ jr' = JsonPass(j, o, NotCalled)
         /\ gt' = NoCall
         /\ UNCHANGED <<now, env, config_file, auth, token_file, issued, reset_seen, notAuth>>
    \/ \E o \in SendOutcomes :
         /\ o.net = "ok" /\ AuthRetryAllowed(o.code, j.retried)
         /\ \E in \in GetTokenInputs(ResetAuth(auth), config_file, token_file, now, Len(issued)) :
              LET r == get_token(ResetAuth(auth), config_file, token_file, now, now,
                                 in[1], in[2])
              IN  /\ jr' = JsonPass(j, o, r)
                  /\ auth' = r.auth
                  /\ token_file' = r.token_file
                  /\ issued' = IssuedAfter(r, issued)
                  /\ gt' = Observe(r, ResetAuth(auth), token_file, now, config_file, TRUE)
                  /\ reset_seen' = FALSE
                  /\ UNCHANGED <<now, env, config_file, notAuth>>

\* The token a node passes in its requests is the one get_access_token()
\* gave it when its invocation began: the newest token, or an older one
\* when a refresh happened since (the oldest stands for these).
CallerTokens(n) == IF n = 0 THEN {} ELSE {TokName(1), TokName(n)}

\* A node calls api_json_request with the token it holds
JsonCall ==
    /\ jr.pc # "send"
    /\ \E tok \in CallerTokens(Len(issued)) : JsonStep([JrIdle EXCEPT !.hdr = tok])

\* The recursive call after the auth retry: "return api_json_request(...,
\* _retried_auth=True, **kwargs)"
JsonReissue ==
    /\ jr.pc = "send"
    /\ JsonStep(jr)

\* ------------------------------------- the refresh request, as it is made
\* _refresh_token sends its request through api_json_request.  The call
\* state of that request: with the default _retried_auth
JrRefreshUnguarded == JrIdle
\* "_retried_auth=True" (the request carries no access_token header)
JrRefresh == [JrIdle EXCEPT !.retried = TRUE]

\* The refresh requests made since the last top-level call began, and the
\* call state of the latest one
RfIdle == [n |-> 0, call |-> JrIdle]

\* What _refresh_token has after the call ended in state rc: the envelope
\* with its "data", or the exception that passes through it
RefreshResult(rc, data) == IF rc.pc = "returned" THEN data ELSE RefreshRaises

\* The inputs that decide a get_token() call on attributes a: what the send
\* of the refresh request gives, the "data" of a code-0 envelope, and the
\* outcome of the cache write
RefreshInputs(a, cf, tf, t, n) ==
    IF ~get_token(a, cf, tf, t, t, RefreshRaises, "ok").requested
    THEN {<<[net |-> "error", code |-> 0], RefreshRaises, "ok">>}
    ELSE {<<o, RefreshRaises, "ok">> : o \in SendOutcomes \ {[net |-> "ok", code |-> 0]}}
           \cup {<<[net |-> "ok", code |-> 0], in[1], in[2]>> :
                    in \in {x \in GetTokenInputs(a, cf, tf, t, n) : x[1].kind = "ok"}}

\* The api_json_request call of the refresh request, answered with o
RefreshCall(o) == JsonPass(JrRefresh, o, NotCalled)

\* The count of refresh requests and the latest one after a get_token()
\* with result r
RfAfter(n, r, rc) ==
    IF r.requested THEN [n |-> n + 1, call |-> rc] ELSE [n |-> n, call |-> JrIdle]

\* A caller calls get_token()
RefreshGetToken ==
    /\ jr.pc # "send"
    /\ \E in \in RefreshInputs(auth, config_file, token_file, now, Len(issued)) :
       \E rc \in {RefreshCall(in[1])} :
       \E resp \in {RefreshResult(rc, in[2])} :
       \E r \in {get_token(auth, config_file, token_file, now, now, resp, in[3])} :
             /\ auth' = r.auth
             /\ token_file' = r.token_file
             /\ issued' = IssuedAfter(r, issued)
             /\ gt' = Observe(r, auth, token_file, now, config_file, reset_seen)
             /\ rf' = RfAfter(0, r, rc)
    /\ reset_seen' = FALSE
    /\ jr' = JrIdle
    /\ UNCHANGED <<nodeVars, tw, ta, now, env, config_file, rateVars, reqVars, cacheVars,
                   cloneVars, jobVars>>

\* One pass of api_json_request for the call state j, n refresh requests
\* having been made for the call so far
RefreshJsonStep(j, n) ==
    \/ \E o \in SendOutcomes :
         /\ ~(o.net = "ok" /\ AuthRetryAllowed(o.code, j.retried))
         /\ jr' = JsonPass(j, o, NotCalled)
         /\ gt' = NoCall
         /\ rf' = [n |-> n, call |-> IF n = 0 THEN JrIdle ELSE rf.call]
         /\ UNCHANGED <<nodeVars, tw, ta, now, env, config_file, auth, token_file, issued,
                        reset_seen, rateVars, reqVars, cacheVars, cloneVars, jobVars>>
    \/ \E o \in SendOutcomes :
         /\ o.net = "ok" /\ AuthRetryAllowed(o.code, j.retried)
         /\ \E in \in RefreshInputs(ResetAuth(auth), config_file, token_file, now,
                                    Len(issued)) :
            \E rc \in {RefreshCall(in[1])} :
            \E resp \in {RefreshResult(rc, in[2])} :
            \E r \in {get_token(ResetAuth(auth), config_file, token_file, now, now,
                                resp, in[3])} :
                  /\ jr' = JsonPass(j, o, r)
                  /\ auth' = r.auth
                  /\ token_file' = r.token_file
                  /\ issued' = IssuedAfter(r, issued)
                  /\ gt' = Observe(r, ResetAuth(auth), token_file, now, config_file, TRUE)
                  /\ rf' = RfAfter(n, r, rc)
                  /\ reset_seen' = FALSE
                  /\ UNCHANGED <<nodeVars, tw, ta, now, env, config_file, rateVars, reqVars,
                                 cacheVars, cloneVars, jobVars>>

RefreshJsonCall ==
    /\ jr.pc # "send"
    /\ \E tok \in CallerTokens(Len(issued)) :
          RefreshJsonStep([JrIdle EXCEPT !.hdr = tok], 0)

RefreshJsonReissue ==
    /\ jr.pc = "send"
    /\ RefreshJsonStep(jr, rf.n)

\* ---------------------------------------------------------- actions: auth
\* A caller calls get_token(); the refresh request takes lat ticks
GetTokenTaking(lats) ==
    /\ jr.pc # "send"
    /\ \E in \in GetTokenInputs(auth, config_file, token_file, now, Len(issued)) :
       \E lat \in lats :
         LET r == get_token(auth, config_file, token_file, now, now + lat, in[1], in[2])
         IN  /\ lat > 0 => (env < MaxEnv /\ r.requested)
             /\ auth' = r.auth
             /\ token_file' = r.token_file
             /\ issued' = IssuedAfter(r, issued)
             /\ gt' = Observe(r, auth, token_file, now, config_file, reset_seen)
             /\ reset_seen' = FALSE
             /\ now' = now + lat
             /\ env' = IF lat > 0 THEN env + 1 ELSE env
             /\ jr' = JrIdle
             /\ UNCHANGED <<config_file, notAuth>>

GetToken == GetTokenTaking(Latencies)

\* get_token() with an immediate answer of the access-token endpoint
GetTokenNow == GetTokenTaking({0})

Reset ==
    /\ jr.pc # "send"
    /\ jr' = JrIdle
    /\ auth' = ResetAuth(auth)
    /\ reset_seen' = TRUE
    /\ gt' = NoCall
    /\ UNCHANGED <<now, env, config_file, token_file, issued, notAuth>>

\* The process restarts: the class attributes are back at their defaults
Restart ==
    /\ jr.pc # "send"
    /\ jr' = JrIdle
    /\ auth # AuthInit
    /\ auth' = AuthInit
    /\ reset_seen' = FALSE
    /\ gt' = NoCall
    /\ UNCHANGED <<now, env, config_file, token_file, issued, notAuth>>

\* Clock advances that reach both sides of the freshness boundary
AuthTickSteps == {1, TokenTTL - EarlyRefresh - 1}

Tick ==
    /\ env < MaxEnv
    /\ jr.pc # "send"
    /\ jr' = JrIdle
    /\ \E d \in AuthTickSteps : now' = now + d
    /\ env' = env + 1
    /\ gt' = NoCall
    /\ UNCHANGED <<config_file, token_file, auth, issued, reset_seen, notAuth>>

\* The user edits config.json out of band
EditConfig ==
    /\ env < MaxEnv
    /\ jr.pc # "send"
    /\ jr' = JrIdle
    /\ \E c \in ConfigFiles : c # config_file /\ config_file' = c
    /\ env' = env + 1
    /\ gt' = NoCall
    /\ UNCHANGED <<now, token_file, auth, issued, reset_seen, notAuth>>

\* Contents the token cache file can be given out of band: removed,
\* damaged, or the record of an issued token (with the fingerprint it was
\* issued for) and an expiry on either side of the freshness boundary.
TokenFileContents ==
    {TokenFileMissing, TokenFileCorrupt}
      \cup {[kind |-> "json", access_token |-> TokName(i), expire_time |-> e,
             config_hash |-> issued[i]] :
              i \in 1..Len(issued), e \in {now + EarlyRefresh, now + EarlyRefresh + 1}}

EditTokenFile ==
    /\ env < MaxEnv
    /\ jr.pc # "send"
    /\ jr' = JrIdle
    /\ \E f \in TokenFileContents : f # token_file /\ token_file' = f
    /\ env' = env + 1
    /\ gt' = NoCall
    /\ UNCHANGED <<now, config_file, auth, issued, reset_seen, notAuth>>

InitAuth ==
    /\ now = StartTime
    /\ env = 0
    /\ config_file \in {CfgA, CfgMissing}
    /\ token_file = TokenFileMissing
    /\ auth = AuthInit
    /\ issued = << >>
    /\ gt = NoCall
    /\ reset_seen = FALSE
    /\ jr = JrIdle

\* The token manager under its callers and its environment
NextAuth == GetToken \/ Reset \/ Restart \/ Tick \/ EditConfig \/ EditTokenFile

\* api_json_request over the token manager
NextJson == GetTokenNow \/ EditConfig \/ JsonCall \/ JsonReissue

\* ----------------------------------------------------------- RateLimiter
\* The categories _intervals names, and one it does not name
Categories == {"lip_sync", "voice_clone", "tts", "default"}
UnknownCategory == "download"
AllCategories == Categories \cup {UnknownCategory}

_intervals ==
    [c \in Categories |->
        CASE c = "lip_sync" -> 6 * TPS
          [] c = "voice_clone" -> 6 * TPS
          [] c = "tts" -> TPS \div 2
          [] c = "default" -> TPS]

\* dict.get(k, default) and d[k] = v
DictGet(d, k, default) == IF k \in DOMAIN d THEN d[k] ELSE default
DictSet(d, k, v) == [x \in DOMAIN d \cup {k} |-> IF x = k THEN v ELSE d[x]]
EmptyDict == [x \in {} |-> 0]

\* time.sleep(d) returns d or d plus an overshoot later
Overshoot == {0, 1}

\* The time wait() records: stamped before the sleep instead of after it
WaitStampEarly(t0, t1) == t0
\* The time wait() records: the clock read after the sleep
WaitStamp(t0, t1) == t1

\* RateLimiter.wait(category) entered at time t
wait(ts, category, t, over) ==
    LET interval == DictGet(_intervals, category, _intervals["default"])
        last_time == DictGet(ts, category, 0)
        elapsed == t - last_time
        wait_time == IF elapsed < interval THEN interval - elapsed ELSE 0
        t1 == IF wait_time > 0 THEN t + wait_time + over ELSE t
    IN  [timestamps |-> DictSet(ts, category, WaitStamp(t, t1)),
         now |-> t1,
         slept |-> wait_time]

NoWait == [called |-> FALSE, cat |-> "", start |-> 0, had_prev |-> FALSE,
           prev |-> 0, stamp |-> 0, slept |-> 0, before |-> EmptyDict]

\* What one wait() call did: ts is the state it was entered in
ObserveWait(w, ts, category, t) ==
    [called |-> TRUE, cat |-> category, start |-> t,
     had_prev |-> category \in DOMAIN ts,
     prev |-> DictGet(ts, category, 0),
     stamp |-> w.timestamps[category], slept |-> w.slept, before |-> ts]

\* A serial caller calls RateLimiter.wait(c)
Wait ==
    /\ calls < MaxCalls
    /\ rq.pc # "loop"
    /\ \E c \in AllCategories, over \in Overshoot :
         LET w == wait(_timestamps, c, now, over) IN
         /\ (w.slept = 0 => over = 0)
         /\ _timestamps' = w.timestamps
         /\ now' = w.now
         /\ rl' = ObserveWait(w, _timestamps, c, now)
    /\ calls' = calls + 1
    /\ UNCHANGED <<env, authVars, overlapVars, nodeVars, jobVars, reqVars, cacheVars, cloneVars>>

\* Time passes between calls
RateTickSteps == {1, TPS, 6 * TPS - 1}

RateTick ==
    /\ env < MaxEnv
    /\ rq.pc # "loop"
    /\ \E d \in RateTickSteps : now' = now + d
    /\ env' = env + 1
    /\ rl' = NoWait
    /\ UNCHANGED <<_timestamps, calls, authVars, overlapVars, nodeVars, jobVars, reqVars, cacheVars, cloneVars>>

\* ----------------------------------------------------------- api_request
DefaultMaxRetries == 3
DefaultRetryDelay == 3 * TPS
\* The retry budgets callers pass (upload_file passes 2), and smaller ones
RetryBudgets == 0..DefaultMaxRetries

\* How one requests.request() + raise_for_status() ends
SendResults == {"ok", "ConnectionError", "Timeout", "HTTPError", "Exception"}

\* The except clauses that do not re-raise: with HTTPError among them
RetryableWithHTTP(out) == out \in {"ConnectionError", "Timeout", "HTTPError"}
\* The except clauses that do not re-raise
Retryable(out) == out \in {"ConnectionError", "Timeout"}

\* "if attempt < max_retries" before time.sleep(retry_delay): dropped
SleepAlways(attempt, max_retries) == TRUE
\* "if attempt < max_retries" before time.sleep(retry_delay)
SleepBeforeRetry(attempt, max_retries) == attempt < max_retries

\* range(1, max_retries + 1) has a value after attempt
MoreAttempts(attempt, max_retries) == attempt + 1 <= max_retries

ExhaustedMsg == "retries_exhausted"

RqIdle == [pc |-> "idle", max_retries |-> 0, retry_delay |-> 0, category |-> "",
           attempt |-> 0, log |-> << >>, last_exception |-> NoneVal,
           err |-> NoneVal]

SendEv(n, out, t) == [ev |-> "send", n |-> n, out |-> out, at |-> t, d |-> 0]
SleepEv(n, t, d) == [ev |-> "sleep", n |-> n, out |-> "", at |-> t, d |-> d]

\* api_request(...) is called: RateLimiter.wait, then the loop is entered
ReqCall ==
    /\ calls < MaxCalls
    /\ rq.pc # "loop"
    /\ \E m \in RetryBudgets, c \in {"default", "lip_sync"}, over \in Overshoot :
         LET w == wait(_timestamps, c, now, over) IN
         /\ (w.slept = 0 => over = 0)
         /\ _timestamps' = w.timestamps
         /\ now' = w.now
         /\ rl' = ObserveWait(w, _timestamps, c, now)
         /\ rq' = [RqIdle EXCEPT !.max_retries = m,
                                 !.retry_delay = DefaultRetryDelay,
                                 !.category = c,
                                 !.attempt = IF m >= 1 THEN 1 ELSE 0,
                                 !.pc = IF m >= 1 THEN "loop" ELSE "raised",
                                 !.err = IF m >= 1 THEN NoneVal ELSE ExhaustedMsg]
    /\ calls' = calls + 1
    /\ UNCHANGED <<env, authVars, overlapVars, nodeVars, jobVars, cacheVars, cloneVars>>

\* One pass of the loop body: a send attempt and the handling of how it ends
ReqAttempt ==
    /\ rq.pc = "loop"
    /\ \E out \in SendResults :
         LET sent == Append(rq.log, SendEv(rq.attempt, out, now))
             sleeps == Retryable(out)
                         /\ SleepBeforeRetry(rq.attempt, rq.max_retries)
             t1 == IF sleeps THEN now + rq.retry_delay ELSE now
             log1 == IF sleeps
                       THEN Append(sent, SleepEv(rq.attempt, now, rq.retry_delay))
                       ELSE sent
         IN
         /\ now' = t1
         /\ rq' = IF out = "ok"
                    THEN [rq EXCEPT !.log = log1, !.pc = "returned"]
                  ELSE IF ~Retryable(out)
                    THEN [rq EXCEPT !.log = log1, !.pc = "raised", !.err = out]
                  ELSE IF MoreAttempts(rq.attempt, rq.max_retries)
                    THEN [rq EXCEPT !.log = log1, !.last_exception = out,
                                    !.attempt = rq.attempt + 1]
                    ELSE [rq EXCEPT !.log = log1, !.last_exception = out,
                                    !.pc = "raised", !.err = ExhaustedMsg]
    /\ rl' = NoWait
    /\ UNCHANGED <<env, _timestamps, calls, authVars, overlapVars, nodeVars, jobVars, cacheVars, cloneVars>>

\* ------------------------------------------------------- VoiceCloneCache
\* md5 digests of two reference audio files, two of the node's model_type
\* options, and two remote voice ids
Hashes == {"0cc1", "92eb"}
ModelTypes == {"cicada3.0-turbo", "cicada1.0"}
VoiceId(i) == "v" \o ToString(i)
VoiceIds == {VoiceId(1), VoiceId(2)}

DictDel(d, k) == [x \in DOMAIN d \ {k} |-> d[x]]

\* _cache: "loaded" is "_cache is not None", d is the dict
CacheInit == [loaded |-> FALSE, d |-> EmptyDict]
\* VOICE_CLONE_CACHE_FILE: absent, not parseable, or a dumped dict
CacheFileMissing == [state |-> "missing", d |-> EmptyDict]
CacheFileCorrupt == [state |-> "corrupt", d |-> EmptyDict]

_load(c, f) ==
    IF c.loaded THEN c
    ELSE IF f.state = "ok" THEN [loaded |-> TRUE, d |-> f.d]
    ELSE [loaded |-> TRUE, d |-> EmptyDict]

\* _save: the write succeeds, fails before the file is opened for writing,
\* or fails after it was truncated; every failure is swallowed
CacheSaveOutcomes == {"ok", "unchanged", "truncated"}

_save(c, f, save) ==
    CASE save = "ok" -> [state |-> "ok", d |-> c.d]
      [] save = "unchanged" -> f
      [] save = "truncated" -> CacheFileCorrupt

_make_key(file_hash, model_type) == file_hash \o "_" \o model_type

\* VoiceCloneCache.get: the cache after the call and the value returned
VoiceCloneCache_get(c, f, file_hash, model_type) ==
    LET c1 == _load(c, f)
        key == _make_key(file_hash, model_type)
    IN  [cache |-> c1,
         ret |-> IF key \in DOMAIN c1.d THEN c1.d[key].voice_id ELSE NoneVal]

VoiceCloneCache_put(c, f, file_hash, model_type, voice_id, t, save) ==
    LET c1 == _load(c, f)
        key == _make_key(file_hash, model_type)
        c2 == [c1 EXCEPT !.d = DictSet(c1.d, key,
                    [voice_id |-> voice_id, model_type |-> model_type,
                     created_at |-> t])]
    IN  [cache |-> c2, file |-> _save(c2, f, save)]

\* remove that leaves the entry in place
RemoveKeeps(d, key) == d
\* "del cls._cache[key]"
RemoveKey(d, key) == DictDel(d, key)

VoiceCloneCache_remove(c, f, file_hash, model_type, save) ==
    LET c1 == _load(c, f)
        key == _make_key(file_hash, model_type)
    IN  IF key \in DOMAIN c1.d
          THEN LET c2 == [c1 EXCEPT !.d = RemoveKey(c1.d, key)]
               IN  [cache |-> c2, file |-> _save(c2, f, save)]
          ELSE [cache |-> c1, file |-> f]

\* No clone_and_synthesize invocation is running
CsIdle == [pc |-> "idle", audio_hash |-> "", model_type |-> "",
           enable_cache |-> FALSE, cached_voice_id |-> NoneVal,
           voice_id |-> NoneVal, log |-> << >>]

NoCacheCall == [op |-> "none", h |-> "", m |-> "", v |-> "", ret |-> "",
                absent |-> FALSE, changed |-> FALSE]

\* What one cache call did: whether the key was absent when it was made, and
\* whether the call changed the mapping or the file
ObserveCache(op, h, m, v, ret, c1, f1) ==
    [op |-> op, h |-> h, m |-> m, v |-> v, ret |-> ret,
     absent |-> _make_key(h, m) \notin DOMAIN _load(_cache, cache_file).d,
     changed |-> c1.d # _load(_cache, cache_file).d \/ f1 # cache_file]

\* A failed write of the cache file is a fault of the environment
SaveFault(save) == IF save = "ok" THEN 0 ELSE 1

CachePut ==
    /\ \E h \in Hashes, m \in ModelTypes, v \in VoiceIds, save \in CacheSaveOutcomes :
        LET r == VoiceCloneCache_put(_cache, cache_file, h, m, v, now, save) IN
        /\ env + SaveFault(save) <= MaxEnv
        /\ env' = env + SaveFault(save)
        /\ _cache' = r.cache
        /\ cache_file' = r.file
        /\ vc' = ObserveCache("put", h, m, v, "", r.cache, r.file)
    /\ UNCHANGED <<now, authVars, overlapVars, nodeVars, jobVars, rateVars, reqVars, cloneVars>>

CacheGet ==
    /\ \E h \in Hashes, m \in ModelTypes :
        LET r == VoiceCloneCache_get(_cache, cache_file, h, m) IN
        /\ _cache' = r.cache
        /\ vc' = ObserveCache("get", h, m, "", r.ret, r.cache, cache_file)
    /\ UNCHANGED <<cache_file, timeVars, authVars, overlapVars, nodeVars, jobVars, rateVars, reqVars, cloneVars>>

CacheRemove ==
    /\ \E h \in Hashes, m \in ModelTypes, save \in CacheSaveOutcomes :
        LET r == VoiceCloneCache_remove(_cache, cache_file, h, m, save) IN
        /\ (_make_key(h, m) \notin DOMAIN _load(_cache, cache_file).d
               => save = "ok")
        /\ env + SaveFault(save) <= MaxEnv
        /\ env' = env + SaveFault(save)
        /\ _cache' = r.cache
        /\ cache_file' = r.file
        /\ vc' = ObserveCache("remove", h, m, "", "", r.cache, r.file)
    /\ UNCHANGED <<now, authVars, overlapVars, nodeVars, jobVars, rateVars, reqVars, cloneVars>>

\* A new process: the class attribute is None again, the file stays
CacheRestart ==
    /\ _cache.loaded
    /\ _cache' = CacheInit
    /\ vc' = NoCacheCall
    /\ cs' = CsIdle
    /\ UNCHANGED <<cache_file, voices, timeVars, authVars, overlapVars, nodeVars, jobVars, rateVars, reqVars>>

\* ------------------------------ CicadaVoiceCloneNode.clone_and_synthesize
\* customised_audio status values: 1 in progress, 2 done, 3 expired,
\* 4 failed, 99 deleted
VoiceStatuses == {1, 2, 3, 4, 99}

\* How the status query of the cached voice ends
ValidationOutcomes ==
    {[raised |-> FALSE, status |-> st] : st \in VoiceStatuses}
        \cup {[raised |-> TRUE, status |-> 0]}

\* "if status == 2": with every status that was read accepted
StatusUsableAny(status) == TRUE
\* "if status == 2": with expired voices accepted as well
StatusUsableOrExpired(status) == status \in {2, 3}
\* "if status == 2"
StatusUsable(status) == status = 2

Cev(ev, id, o) == [ev |-> ev, id |-> id, raised |-> o.raised, status |-> o.status]
NoOutcome == [raised |-> FALSE, status |-> 0]

\* The node is invoked, the pre-checks pass, and the cache is looked up
CloneBegin ==
    /\ cs.pc \in {"idle", "done", "failed"}
    /\ \E h \in Hashes, m \in ModelTypes, use_cache \in {"enabled", "disabled"} :
         LET enable_cache == (use_cache = "enabled")
             r == VoiceCloneCache_get(_cache, cache_file, h, m)
             cached == IF enable_cache THEN r.ret ELSE NoneVal
         IN
         /\ _cache' = IF enable_cache THEN r.cache ELSE _cache
         /\ cs' = [CsIdle EXCEPT !.audio_hash = h, !.model_type = m,
                                 !.enable_cache = enable_cache,
                                 !.cached_voice_id = cached,
                                 !.pc = IF Truthy(cached) THEN "validate"
                                                          ELSE "upload",
                                 !.log = << Cev("cache_get", cached, NoOutcome) >>]
    /\ UNCHANGED <<cache_file, vc, voices, timeVars, authVars, overlapVars, nodeVars, jobVars, rateVars, reqVars>>

\* The cached voice id is re-validated with a status query
CloneValidate ==
    /\ cs.pc = "validate"
    /\ \E o \in ValidationOutcomes, save \in CacheSaveOutcomes :
         LET seen == Append(cs.log, Cev("validate", cs.cached_voice_id, o))
             r == VoiceCloneCache_remove(_cache, cache_file, cs.audio_hash,
                                         cs.model_type, save)
         IN
         IF ~o.raised /\ StatusUsable(o.status)
           THEN /\ save = "ok"
                /\ cs' = [cs EXCEPT !.voice_id = cs.cached_voice_id,
                                    !.pc = "synth", !.log = seen]
                /\ UNCHANGED <<_cache, cache_file>>
           ELSE /\ _cache' = r.cache
                /\ cache_file' = r.file
                /\ cs' = [cs EXCEPT !.cached_voice_id = NoneVal,
                                    !.pc = "upload",
                                    !.log = Append(seen,
                                        Cev("remove", cs.cached_voice_id, NoOutcome))]
    /\ UNCHANGED <<vc, voices, timeVars, authVars, overlapVars, nodeVars, jobVars, rateVars, reqVars>>

\* upload_file and the check of the public url it returns
CloneUpload ==
    /\ cs.pc = "upload"
    /\ \E o \in {"ok", "no_url", "raise"} :
         cs' = IF o = "ok"
                 THEN [cs EXCEPT !.pc = "create",
                                 !.log = Append(cs.log, Cev("upload", NoneVal, NoOutcome))]
                 ELSE [cs EXCEPT !.pc = "failed"]
    /\ UNCHANGED <<voices, cacheVars, timeVars, authVars, overlapVars, nodeVars, jobVars, rateVars, reqVars>>

\* create_customised_audio: the remote side creates a voice or the call raises
CloneCreate ==
    /\ cs.pc = "create"
    /\ \/ /\ voices < MaxVoices
          /\ voices' = voices + 1
          /\ cs' = [cs EXCEPT !.voice_id = VoiceId(voices + 1), !.pc = "poll",
                              !.log = Append(cs.log,
                                  Cev("create", VoiceId(voices + 1), NoOutcome))]
       \/ /\ cs' = [cs EXCEPT !.pc = "failed"]
          /\ UNCHANGED voices
    /\ UNCHANGED <<cacheVars, timeVars, authVars, overlapVars, nodeVars, jobVars, rateVars, reqVars>>

\* _poll_voice_clone returns or raises; on return the result is cached
ClonePoll ==
    /\ cs.pc = "poll"
    /\ \E o \in {"done", "raise"}, save \in CacheSaveOutcomes :
         LET polled == Append(cs.log, Cev("poll_done", cs.voice_id, NoOutcome))
             r == VoiceCloneCache_put(_cache, cache_file, cs.audio_hash,
                                      cs.model_type, cs.voice_id, now, save)
         IN
         IF o = "done" /\ cs.enable_cache
           THEN /\ _cache' = r.cache
                /\ cache_file' = r.file
                /\ cs' = [cs EXCEPT !.pc = "synth",
                                    !.log = Append(polled,
                                        Cev("put", cs.voice_id, NoOutcome))]
           ELSE /\ save = "ok"
                /\ cs' = IF o = "done"
                           THEN [cs EXCEPT !.pc = "synth", !.log = polled]
                           ELSE [cs EXCEPT !.pc = "failed"]
                /\ UNCHANGED <<_cache, cache_file>>
    /\ UNCHANGED <<vc, voices, timeVars, authVars, overlapVars, nodeVars, jobVars, rateVars, reqVars>>

\* create_audio_task is sent with audio_man = voice_id; the rest of the
\* invocation (polling, download) ends well or raises
CloneSynth ==
    /\ cs.pc = "synth"
    /\ \E o \in {"done", "failed"} :
         cs' = [cs EXCEPT !.pc = o,
                          !.log = Append(cs.log, Cev("synth", cs.voice_id, NoOutcome))]
    /\ UNCHANGED <<voices, cacheVars, timeVars, authVars, overlapVars, nodeVars, jobVars, rateVars, reqVars>>

\* ------------------------------------------------------------ job pollers
\* Server messages, one element per character: none, "任务余额不足",
\* "渲染失败", "欠费"
ServerMsgs ==
    {<< >>, <<"ren", "wu", "yu", "e", "bu", "zu">>,
     <<"xuan", "ran", "shi", "bai">>, <<"qian", "fei">>}

\* "扣费失败", "余额不足", "蝉豆不足", "蝉豆余额", "欠费"
billing_keywords ==
    {<<"kou", "fei", "shi", "bai">>, <<"yu", "e", "bu", "zu">>,
     <<"chan", "dou", "bu", "zu">>, <<"chan", "dou", "yu", "e">>,
     <<"qian", "fei">>}

\* check_billing_error that never raises
BillingNeverRaised(msg) == FALSE
\* check_billing_error(msg) raises
check_billing_error(msg) ==
    msg # << >> /\ \E kw \in billing_keywords : Contains(msg, kw)

max_consecutive_errors == 5
ResultUrl == "https://x/video.mp4"
RemoteProgress == {10, 40, 100}
UnknownStatus == 7

\* The max_wait each poller defaults to, in ticks
max_wait(kind) == IF kind = "lip_sync" THEN 1800 * TPS ELSE 600 * TPS

\* "elapsed > max_wait": one poll interval late
TimedOutLate(elapsed, limit) == elapsed > limit + 5 * TPS
\* "elapsed > max_wait"
TimedOut(elapsed, limit) == elapsed > limit

\* "consecutive_errors >= max_consecutive_errors": one failure late
ErrorsExhaustedLate(n) == n > max_consecutive_errors
\* "consecutive_errors >= max_consecutive_errors"
ErrorsExhausted(n) == n >= max_consecutive_errors

\* "if not video_url" / "if not audio_url": any url accepted
UrlAny(url) == TRUE
\* "if not video_url" / "if not audio_url" does not raise
UrlPresent(url) == url # ""

\* The percentage handed on while queued: the remote one, uncapped
QueuedReportUncapped(api_progress) == api_progress
\* The percentage handed on while queued: min(15, api_progress)
QueuedReport(api_progress) == IF api_progress < 15 THEN api_progress ELSE 15

\* The synthesis estimate without its caps
EstimateUncapped(poll_count) == poll_count * 15
\* The synthesis estimate after poll_count "processing" responses
estimated_pct(poll_count) ==
    IF poll_count <= 6
      THEN (IF poll_count * 15 < 90 THEN poll_count * 15 ELSE 90)
      ELSE (IF 90 + (poll_count - 6) < 95 THEN 90 + (poll_count - 6) ELSE 95)

\* What one poll request can bring back: the request fails, or a response
Resp(ok, status, progress, url, msg) ==
    [ok |-> ok, status |-> status, progress |-> progress, url |-> url, msg |-> msg]
RequestFails == Resp(FALSE, 0, 0, "", << >>)

PollResponses(kind) ==
    {RequestFails} \cup
    CASE kind = "lip_sync" ->
           {Resp(TRUE, st, p, "", << >>) : st \in {0, 10, UnknownStatus}, p \in RemoteProgress}
             \cup {Resp(TRUE, 20, 100, u, << >>) : u \in {"", ResultUrl}}
             \cup {Resp(TRUE, 30, 40, "", m) : m \in ServerMsgs}
      [] kind = "voice_clone" ->
           {Resp(TRUE, st, p, "", << >>) : st \in {0, 1, UnknownStatus}, p \in RemoteProgress}
             \cup {Resp(TRUE, st, 100, "", << >>) : st \in {2, 3, 99}}
             \cup {Resp(TRUE, 4, 40, "", m) : m \in ServerMsgs}
      [] kind = "synthesis" ->
           {Resp(TRUE, st, 0, "", << >>) : st \in {1, UnknownStatus}}
             \cup {Resp(TRUE, 9, 0, u, m) : u \in {"", ResultUrl}, m \in ServerMsgs}

PlIdle == [kind |-> "", pc |-> "idle", start |-> 0, last_status |-> -1,
           last_progress |-> -1, consecutive_errors |-> 0, poll_count |-> 0,
           ret |-> "", err |-> "", errmsg |-> << >>,
           polled |-> FALSE, resp |-> RequestFails, reports |-> << >>,
           before |-> -1]

\* An iteration begins: what it hands to progress.update is collected anew
Enter(p) ==
    [p EXCEPT !.polled = FALSE, !.reports = << >>,
              !.before = IF p.reports # << >> THEN p.reports[Len(p.reports)] ELSE @]

\* The poll request of an iteration was made and ended as r
Asked(p, r) == [Enter(p) EXCEPT !.polled = TRUE, !.resp = r]

Fail(p, err, msg) == [p EXCEPT !.pc = "raised", !.err = err, !.errmsg = msg]

\* The failure branch of a poller: billing error first, else the generic one
JobFailed(p, msg) ==
    IF check_billing_error(msg) THEN Fail(p, "billing", msg)
                                ELSE Fail(p, "failed", msg)

\* The except branch of _poll_voice_clone and _poll_audio_synthesis
RequestError(p) ==
    LET n == p.consecutive_errors + 1
        q == [p EXCEPT !.consecutive_errors = n]
    IN  IF ErrorsExhausted(n) THEN Fail(q, "abandoned", << >>) ELSE q

\* "if status != last_status or api_progress != last_progress": report and
\* remember
Changed(p, r, shown) ==
    IF r.status # p.last_status \/ r.progress # p.last_progress
      THEN [p EXCEPT !.reports = << shown >>, !.last_status = r.status,
                     !.last_progress = r.progress]
      ELSE p

\* One iteration of _poll_lip_sync entered at time t
_poll_lip_sync(p, r, t) ==
    IF TimedOut(t - p.start, max_wait(p.kind)) THEN Fail(Enter(p), "timeout", << >>)
    ELSE IF ~r.ok THEN Fail(Asked(p, r), "request_failed", << >>)
    ELSE LET b == Changed(Asked(p, r), r,
                     IF r.status = 0 THEN QueuedReport(r.progress) ELSE r.progress)
         IN  IF r.status = 20
               THEN IF UrlPresent(r.url)
                      THEN [b EXCEPT !.reports = Append(b.reports, 100),
                                     !.pc = "returned", !.ret = r.url]
                      ELSE Fail(b, "no_url", << >>)
             ELSE IF r.status = 30 THEN JobFailed(b, r.msg)
             ELSE b

\* "if status == 2" of _poll_voice_clone: with expired voices taken as done
CloneDoneOrExpired(status) == status \in {2, 3}
\* "if status == 2" of _poll_voice_clone
CloneDone(status) == status = 2

\* One iteration of _poll_voice_clone entered at time t
_poll_voice_clone(p, r, t) ==
    IF TimedOut(t - p.start, max_wait(p.kind)) THEN Fail(Enter(p), "timeout", << >>)
    ELSE IF ~r.ok THEN RequestError(Asked(p, r))
    ELSE LET a == [Asked(p, r) EXCEPT !.consecutive_errors = 0] IN
         IF CloneDone(r.status)
           THEN [a EXCEPT !.reports = << 100 >>, !.pc = "returned"]
         ELSE IF r.status = 4 THEN JobFailed(a, r.msg)
         ELSE IF r.status = 3 THEN Fail(a, "expired", << >>)
         ELSE IF r.status = 99 THEN Fail(a, "deleted", << >>)
         ELSE Changed(a, r, r.progress)

\* poll_count is compared with 6 and 10 only and its estimate is 95 from 11
\* on: counts above PollCountCap are kept as PollCountCap
Counted(n) == IF n < PollCountCap THEN n ELSE PollCountCap

\* One iteration of _poll_audio_synthesis entered at time t
_poll_audio_synthesis(p, r, t) ==
    IF TimedOut(t - p.start, max_wait(p.kind)) THEN Fail(Enter(p), "timeout", << >>)
    ELSE IF ~r.ok THEN RequestError(Asked(p, r))
    ELSE LET a == [Asked(p, r) EXCEPT !.consecutive_errors = 0] IN
         IF r.status = 9
           THEN IF r.msg # << >> THEN JobFailed(a, r.msg)
                ELSE IF ~UrlPresent(r.url) THEN Fail(a, "no_url", << >>)
                ELSE [a EXCEPT !.reports = << 100 >>, !.pc = "returned",
                               !.ret = r.url]
         ELSE IF r.status = 1
           THEN [a EXCEPT !.poll_count = Counted(@ + 1),
                          !.reports = << estimated_pct(Counted(a.poll_count + 1)) >>]
         ELSE [a EXCEPT !.poll_count = Counted(@ + 1)]

\* The time.sleep that ends an iteration that did not end the poll
PollSleep(q) ==
    IF q.kind = "synthesis" /\ q.resp.ok /\ q.resp.status = 1 /\ q.poll_count <= 10
      THEN 3 * TPS ELSE 5 * TPS

\* A poller is called
PollStart ==
    /\ pl.pc = "idle"
    /\ \E kind \in {"lip_sync", "voice_clone", "synthesis"} :
         pl' = [PlIdle EXCEPT !.kind = kind, !.pc = "loop", !.start = now]
    /\ UNCHANGED <<up, pg, timeVars, authVars, overlapVars, nodeVars, rateVars, reqVars, cacheVars, cloneVars>>

\* One iteration of the poll loop, its request ending as one of rs
PollIterationOn(rs) ==
    /\ pl.pc = "loop"
    /\ \E r \in rs :
         LET q == CASE pl.kind = "lip_sync" -> _poll_lip_sync(pl, r, now)
                    [] pl.kind = "voice_clone" -> _poll_voice_clone(pl, r, now)
                    [] pl.kind = "synthesis" -> _poll_audio_synthesis(pl, r, now)
         IN  /\ pl' = q
             /\ now' = IF q.pc = "loop" THEN now + PollSleep(q) ELSE now
    /\ UNCHANGED <<up, pg, env, authVars, overlapVars, nodeVars, rateVars, reqVars, cacheVars, cloneVars>>

PollIteration == PollIterationOn(PollResponses(pl.kind))

\* The statuses that end a poll
TerminalStatuses(kind) ==
    CASE kind = "lip_sync" -> {20, 30}
      [] kind = "voice_clone" -> {2, 3, 4, 99}
      [] kind = "synthesis" -> {9}

\* An iteration of a job that never reaches a terminal status
PollWaiting ==
    PollIterationOn({r \in PollResponses(pl.kind) :
                        ~r.ok \/ r.status \notin TerminalStatuses(pl.kind)})

\* ------------------------------------------------ upload_file: sync poll
poll_interval == 3 * TPS
max_poll_wait == 90 * TPS

\* "文件不可用"
Unavailable == <<"wen", "jian", "bu", "ke", "yong">>
\* What str(e) of a failed file_detail request can read: a network failure,
\* or a business error, which carries the server's message
RequestErrorTexts ==
    {<<"qing", "qiu", "shi", "bai">>,
     <<"code", "=", "500", ":">> \o Unavailable}

\* The file statuses: 0 not synced, 1 synced, 98/99/100 unusable
FileStatuses == {0, 1, 98, 99, 100}
Detail(ok, status, text) == [ok |-> ok, status |-> status, text |-> text]
DetailResponses ==
    {Detail(TRUE, st, << >>) : st \in FileStatuses}
        \cup {Detail(FALSE, 0, t) : t \in RequestErrorTexts}

UpIdle ==
    [pc |-> "idle", poll_start |-> 0, polled |-> FALSE,
     resp |-> Detail(TRUE, 0, << >>), seen_synced |-> FALSE,
     err |-> "", text |-> << >>, reports |-> << >>]

\* "except Exception as e: if '文件不可用' in str(e): raise", else go on waiting
Handled(u, origin, text) ==
    IF Contains(text, Unavailable)
    THEN [u EXCEPT !.pc = "raised", !.err = origin, !.text = text]
    ELSE u

\* "status == 1" read as "status is 0 or 1"
SyncedOrPending(status) == status \in {0, 1}
Synced(status) == status = 1

\* min(90, int(elapsed / max_poll_wait * 80 + 10)), elapsed in ticks
SyncEstimate(elapsed) ==
    LET v == (elapsed * 80) \div max_poll_wait + 10
    IN  IF v < 90 THEN v ELSE 90

\* One iteration of the loop; elapsed is read before the sleep
sync_poll(u, r, elapsed) ==
    IF elapsed > max_poll_wait
    THEN [u EXCEPT !.pc = "raised", !.err = "timeout", !.polled = FALSE,
                   !.reports = << >>]
    ELSE LET a == [u EXCEPT !.polled = TRUE, !.resp = r, !.reports = << >>]
         IN  IF ~r.ok THEN Handled(a, "request_failed", r.text)
             ELSE IF Synced(r.status)
                  THEN [a EXCEPT !.pc = "returned", !.seen_synced = TRUE]
             ELSE IF r.status \in {98, 99, 100}
                  THEN Handled(a, "unavailable", Unavailable \o <<"status">>)
             ELSE [a EXCEPT !.reports = << SyncEstimate(elapsed) >>]

\* The PUT succeeded; the wait for the file to be synced begins
UploadPollStart ==
    /\ up.pc = "idle"
    /\ up' = [UpIdle EXCEPT !.pc = "loop", !.poll_start = now]
    /\ UNCHANGED <<pl, pg, timeVars, authVars, overlapVars, nodeVars, rateVars, reqVars, cacheVars,
                   cloneVars>>

UploadPollIteration ==
    /\ up.pc = "loop"
    /\ \E r \in DetailResponses :
          LET elapsed == now - up.poll_start
              u == sync_poll(up, r, elapsed)
          IN  /\ up' = u
              /\ now' = IF u.polled THEN now + poll_interval ELSE now
    /\ UNCHANGED <<pl, pg, env, authVars, overlapVars, nodeVars, rateVars, reqVars, cacheVars,
                   cloneVars>>

\* --------------------------------------------------------- CicadaProgress
\* Python floats are binary floating point with round-to-nearest-even.  The
\* model keeps that arithmetic with a mantissa of Prec bits instead of 53: a
\* float is m * 2^e with m = 0 or 2^(Prec-1) <= |m| < 2^Prec.
Prec == 11

Zero == [m |-> 0, e |-> 0]
Abs(x) == IF x < 0 THEN -x ELSE x
Sign(x) == IF x < 0 THEN -1 ELSE 1

\* Scale n / d * 2^e until 2^(Prec-1) <= n / d < 2^Prec
RECURSIVE Normalize(_, _, _)
Normalize(n, d, e) ==
    IF n >= 2^Prec * d THEN Normalize(n, 2 * d, e + 1)
    ELSE IF n < 2^(Prec - 1) * d THEN Normalize(2 * n, d, e - 1)
    ELSE [n |-> n, d |-> d, e |-> e]

\* The float nearest to sign * n / d * 2^e, ties to even
Round(sign, n, d, e) ==
    IF n = 0 THEN Zero
    ELSE LET s == Normalize(n, d, e)
             q == s.n \div s.d
             r == s.n % s.d
             m == IF 2 * r > s.d \/ (2 * r = s.d /\ q % 2 = 1) THEN q + 1 ELSE q
         IN  IF m = 2^Prec THEN [m |-> sign * 2^(Prec - 1), e |-> s.e + 1]
             ELSE [m |-> sign * m, e |-> s.e]

\* int / int
IntDiv(a, b) == Round(1, a, b, 0)
\* float * int and float / int
FMul(f, k) == Round(Sign(f.m * k), Abs(f.m * k), 1, f.e)
FDiv(f, k) == Round(Sign(f.m), Abs(f.m), k, f.e)
\* float + float
FAdd(f, g) ==
    IF f.m = 0 THEN g
    ELSE IF g.m = 0 THEN f
    ELSE LET e == IF f.e < g.e THEN f.e ELSE g.e
             sum == f.m * 2^(f.e - e) + g.m * 2^(g.e - e)
         IN  Round(Sign(sum), Abs(sum), 1, e)
\* int(x): towards zero
Trunc(f) ==
    IF f.e >= 0 THEN f.m * 2^f.e ELSE Sign(f.m) * (Abs(f.m) \div 2^(-f.e))

WeightLists ==
    UNION {[1..n -> 1..MaxWeight] : n \in 1..MaxStages}
\* Inner percentages a caller passes, in and out of 0..100
InnerPcts == {-50, 0, 50, 100, 150}

RECURSIVE SumWeights(_, _)
SumWeights(ws, i) == IF i = 0 THEN 0 ELSE SumWeights(ws, i - 1) + ws[i]
total_weight(ws) == SumWeights(ws, Len(ws))

\* "pct = weight / total_weight * 100"
span_pct(ws, i) == FMul(IntDiv(ws[i], total_weight(ws)), 100)
\* "cumulative" after i stages
RECURSIVE cumulative(_, _)
cumulative(ws, i) ==
    IF i = 0 THEN Zero ELSE FAdd(cumulative(ws, i - 1), span_pct(ws, i))

\* __init__; stage i of the list has the name i
Stages(ws) ==
    [i \in 1..Len(ws) |->
        [name |-> i, start_pct |-> cumulative(ws, i - 1),
         span_pct |-> span_pct(ws, i)]]

\* "max(0, min(100, ...))" without the lower limit
ClampTop(x) == IF x > 100 THEN 100 ELSE x
Clamp(x) == IF x < 0 THEN 0 ELSE IF x > 100 THEN 100 ELSE x

PgNone ==
    [pc |-> "none", weights |-> << >>, stages |-> << >>, _stage_idx |-> -1,
     op |-> "", arg |-> 0, displayed |-> FALSE, shown |-> 0]

\* _set_progress: what the bar is given
Show(g, x) == [g EXCEPT !.displayed = TRUE, !.shown = Clamp(x)]
Called(g, op, arg) == [g EXCEPT !.op = op, !.arg = arg, !.displayed = FALSE]

\* "global_pct = start_pct + span_pct * inner_pct / 100"
global_pct(stage, inner_pct) ==
    FAdd(stage.start_pct, FDiv(FMul(stage.span_pct, inner_pct), 100))

ProgressNew ==
    /\ pg.pc = "none"
    /\ \E ws \in WeightLists :
          pg' = [PgNone EXCEPT !.pc = "made", !.weights = ws,
                               !.stages = Stages(ws), !.op = "init"]
    /\ UNCHANGED <<pl, up, timeVars, authVars, overlapVars, nodeVars, rateVars, reqVars, cacheVars,
                   cloneVars>>

ProgressStart ==
    /\ pg.pc = "made"
    /\ pg' = Show(Called(pg, "start", 0), 0)
    /\ UNCHANGED <<pl, up, timeVars, authVars, overlapVars, nodeVars, rateVars, reqVars, cacheVars,
                   cloneVars>>

\* An advance that falls back to the first stage for a name the list does
\* not have
ProgressAdvanceFallback ==
    /\ pg.pc = "made"
    /\ \E stage_name \in 1..(MaxStages + 1) :
          LET g == Called(pg, "advance", stage_name)
              k == IF stage_name \in DOMAIN pg.stages THEN stage_name ELSE 1
          IN  pg' = Show([g EXCEPT !._stage_idx = k - 1], Trunc(pg.stages[k].start_pct))
    /\ UNCHANGED <<pl, up, timeVars, authVars, overlapVars, nodeVars, rateVars, reqVars, cacheVars,
                   cloneVars>>

\* advance(stage_name); a name the list does not have is ignored
ProgressAdvance ==
    /\ pg.pc = "made"
    /\ \E stage_name \in 1..(MaxStages + 1) :
          LET g == Called(pg, "advance", stage_name)
          IN  pg' = IF stage_name \in DOMAIN pg.stages
                    THEN Show([g EXCEPT !._stage_idx = stage_name - 1],
                              Trunc(pg.stages[stage_name].start_pct))
                    ELSE g
    /\ UNCHANGED <<pl, up, timeVars, authVars, overlapVars, nodeVars, rateVars, reqVars, cacheVars,
                   cloneVars>>

ProgressUpdate ==
    /\ pg.pc = "made"
    /\ \E inner_pct \in InnerPcts :
          LET g == Called(pg, "update", inner_pct)
          IN  pg' = IF pg._stage_idx < 0 THEN g
                    ELSE Show(g, Trunc(global_pct(pg.stages[pg._stage_idx + 1],
                                                  inner_pct)))
    /\ UNCHANGED <<pl, up, timeVars, authVars, overlapVars, nodeVars, rateVars, reqVars, cacheVars,
                   cloneVars>>

ProgressFinish ==
    /\ pg.pc = "made"
    /\ pg' = Show(Called(pg, "finish", 0), 100)
    /\ UNCHANGED <<pl, up, timeVars, authVars, overlapVars, nodeVars, rateVars, reqVars, cacheVars,
                   cloneVars>>

\* ------------------------------------- RateLimiter.wait, two invocations
\* Two invocations call wait(c) for one category; the class has no lock, so
\* the steps of the two calls interleave: the reads and the decision (lines
\* 327-331), the sleep (line 335), the stamp (line 337).
Threads == {1, 2}

WaitThreadIdle == [pc |-> "idle", wake |-> 0, returned |-> 0]
TwIdle == [cat |-> "", th |-> [i \in Threads |-> WaitThreadIdle]]

\* wait() up to the decision: sleep until wake, or go on to the stamp
OverlapEnter(i) ==
    /\ tw.th[i].pc = "idle"
    /\ \E c \in AllCategories :
          /\ tw.cat \in {"", c}
          /\ LET w == wait(_timestamps, c, now, 0)
             IN  tw' = [tw EXCEPT !.cat = c,
                                  !.th[i].pc = IF w.slept > 0 THEN "sleep" ELSE "stamp",
                                  !.th[i].wake = now + w.slept]
    /\ UNCHANGED <<nodeVars, ta, rf, timeVars, authVars, rateVars, reqVars, cacheVars,
                   cloneVars, jobVars>>

\* time.sleep(wait_time) returns
OverlapWake(i) ==
    /\ tw.th[i].pc = "sleep"
    /\ now' = IF now < tw.th[i].wake THEN tw.th[i].wake ELSE now
    /\ tw' = [tw EXCEPT !.th[i].pc = "stamp"]
    /\ UNCHANGED <<nodeVars, ta, rf, env, authVars, rateVars, reqVars, cacheVars,
                   cloneVars, jobVars>>

\* cls._timestamps[category] = time.time(), and wait() returns
OverlapStamp(i) ==
    /\ tw.th[i].pc = "stamp"
    /\ _timestamps' = DictSet(_timestamps, tw.cat, WaitStamp(now, now))
    /\ tw' = [tw EXCEPT !.th[i].pc = "done", !.th[i].returned = now]
    /\ UNCHANGED <<nodeVars, ta, rf, rl, calls, timeVars, authVars, reqVars, cacheVars,
                   cloneVars, jobVars>>

\* One call made and ended before the two
OverlapPrior ==
    /\ \A i \in Threads : tw.th[i].pc = "idle"
    /\ calls = 0
    /\ Wait

\* --------------------------------------------- get_token, two invocations
\* Two invocations call get_token(); the class has no lock, and the calls
\* interleave where one of them blocks: at the refresh request.

\* _refresh_token from the response on (lines 156-165), on the attributes as
\* they are when the response arrives
refresh_reply(a, tf, t, resp, save) ==
    LET a2 == [a EXCEPT !._token = resp.access_token,
                        !._token_expire = t + TokenTTL,
                        !._token_config_hash = a._config_hash]
    IN  IF resp.kind = "raise"
        THEN [auth |-> a, token_file |-> tf, raised |-> "RequestFailed"]
        ELSE IF ~Truthy(a2._token)
        THEN [auth |-> a2, token_file |-> tf, raised |-> "EmptyAccessToken"]
        ELSE [auth |-> a2, token_file |-> _save_token_cache(a2, tf, save),
              raised |-> "none"]

AuthThreadIdle == [pc |-> "idle", sent |-> NoConfig, ret |-> NoneVal, raised |-> "none"]
TaIdle == [th |-> [i \in Threads |-> AuthThreadIdle], requests |-> 0]

\* get_token() up to the point where it returns or sends the refresh request
AuthEnter(i) ==
    /\ ta.th[i].pc = "idle"
    /\ LET r == get_token(auth, config_file, token_file, now, now, RefreshRaises, "ok")
       IN  /\ auth' = r.auth
           /\ ta' = IF r.requested
                    THEN [ta EXCEPT !.th[i].pc = "await", !.th[i].sent = r.sent,
                                    !.requests = @ + 1]
                    ELSE [ta EXCEPT !.th[i].pc = "done", !.th[i].ret = r.ret,
                                    !.th[i].raised = r.raised]
    /\ UNCHANGED <<nodeVars, tw, rf, timeVars, config_file, token_file, issued, gt,
                   reset_seen, jr, rateVars, reqVars, cacheVars, cloneVars, jobVars>>

\* The answer of the access-token endpoint arrives
AuthReply(i) ==
    /\ ta.th[i].pc = "await"
    /\ \E resp \in RefreshResponses(Len(issued)), save \in SaveOutcomes :
          LET r == refresh_reply(auth, token_file, now, resp, save)
          IN  /\ Truthy(resp.access_token) => Len(issued) < MaxRefresh
              /\ ~Truthy(resp.access_token) => save = "ok"
              /\ auth' = r.auth
              /\ token_file' = r.token_file
              /\ issued' = IF r.raised = "none"
                           THEN Append(issued,
                                       _compute_config_hash(ta.th[i].sent.app_id,
                                                            ta.th[i].sent.secret_key))
                           ELSE issued
              /\ ta' = [ta EXCEPT !.th[i].pc = "done", !.th[i].raised = r.raised,
                                  !.th[i].ret = IF r.raised = "none"
                                                THEN r.auth._token ELSE NoneVal]
    /\ UNCHANGED <<nodeVars, tw, rf, timeVars, config_file, gt, reset_seen, jr, rateVars,
                   reqVars, cacheVars, cloneVars, jobVars>>

\* ------------------------------------------------- upload_file: the PUT
\* The file is read into memory and wrapped in one UploadProgress object,
\* which is passed as data= to api_request("PUT", sign_url, max_retries=2).
\* Sizes are counted in the blocks in which the body is read.
MaxBlocks == 2
PutMaxRetries == 2

UbIdle == [pc |-> "idle", _pos |-> 0, _total |-> 0, attempt |-> 0, log |-> << >>]

\* UploadProgress.read called until k more blocks were asked for: _pos
\* moves on from where it stands and stops at _total
ReadBlocks(b, k) ==
    [b EXCEPT !._pos = IF b._pos + k < b._total THEN b._pos + k ELSE b._total]

\* What one attempt put on the wire: from which block on, and how many
PutEv(n, from, sent, out) == [n |-> n, from |-> from, sent |-> sent, out |-> out]

\* upload_file reaches the PUT: RateLimiter.wait("default"), then the loop
PutCall ==
    /\ calls < MaxCalls
    /\ ub.pc # "loop"
    /\ \E total \in 1..MaxBlocks, over \in Overshoot :
         LET w == wait(_timestamps, "default", now, over) IN
         /\ (w.slept = 0 => over = 0)
         /\ _timestamps' = w.timestamps
         /\ now' = w.now
         /\ rl' = ObserveWait(w, _timestamps, "default", now)
         /\ ub' = [UbIdle EXCEPT !.pc = "loop", !._total = total, !.attempt = 1]
    /\ calls' = calls + 1
    /\ UNCHANGED <<ls, env, authVars, overlapVars, jobVars, reqVars, cacheVars, cloneVars>>

\* One pass of the loop of api_request for the PUT: requests reads the body
\* with read() while it sends; the attempt fails after k blocks were read, or
\* a response comes back once the reader returned b""
PutAttempt ==
    /\ ub.pc = "loop"
    /\ \E k \in 0..MaxBlocks, out \in SendResults :
         LET b == ReadBlocks(ub, k)
             sent == b._pos - ub._pos
             b1 == [b EXCEPT !.log = Append(@, PutEv(ub.attempt, ub._pos, sent, out))]
             sleeps == Retryable(out) /\ SleepBeforeRetry(ub.attempt, PutMaxRetries)
         IN
         /\ k <= ub._total
         /\ out \in {"ok", "HTTPError"} => k = ub._total
         /\ now' = IF sleeps THEN now + DefaultRetryDelay ELSE now
         /\ ub' = IF out = "ok" THEN [b1 EXCEPT !.pc = "returned"]
                  ELSE IF ~Retryable(out) THEN [b1 EXCEPT !.pc = "raised"]
                  ELSE IF MoreAttempts(ub.attempt, PutMaxRetries)
                    THEN [b1 EXCEPT !.attempt = ub.attempt + 1]
                    ELSE [b1 EXCEPT !.pc = "raised"]
    /\ rl' = NoWait
    /\ UNCHANGED <<ls, env, _timestamps, calls, authVars, overlapVars, jobVars, reqVars,
                   cacheVars, cloneVars>>

\* --------------------------------------- clone_and_synthesize, from its call
\* The text input: its length and its length after strip()
TextLimit == 4000
Text(len, stripped) == [len |-> len, stripped |-> stripped]
Texts == {Text(0, 0), Text(2, 0), Text(TextLimit, TextLimit), Text(TextLimit + 1, TextLimit + 1)}

\* get_audio_duration: seconds, or None when no library could read the file
MinDuration == 15
NoDuration == -1
Durations == {NoDuration, MinDuration - 1, MinDuration}

\* The checks of lines 1241-1278 without the one on the duration
LocalErrorNoDuration(text, exists, duration) ==
    IF text.len = 0 \/ text.stripped = 0 THEN "EmptyText"
    ELSE IF text.len > TextLimit THEN "TextTooLong"
    ELSE IF ~exists THEN "FileNotFound"
    ELSE "none"

\* The checks of lines 1241-1278, in their order ("none": all passed)
LocalError(text, exists, duration) ==
    IF text.len = 0 \/ text.stripped = 0 THEN "EmptyText"
    ELSE IF text.len > TextLimit THEN "TextTooLong"
    ELSE IF ~exists THEN "FileNotFound"
    ELSE IF duration # NoDuration /\ duration < MinDuration THEN "AudioTooShort"
    ELSE "none"

\* "enable_cache = (use_cache == 'enabled')": always on
EnableCacheAlways(use_cache) == TRUE
\* "enable_cache = (use_cache == 'enabled')"
EnableCache(use_cache) == use_cache = "enabled"

\* The hash and the model type of an invocation that ends before it uses them
audio_hash_unused == CHOOSE h \in Hashes : TRUE
model_type_unused == CHOOSE m \in ModelTypes : TRUE

\* The inputs of the invocation, kept at the head of its log
InvokeEv(text, exists, duration, use_cache) ==
    [ev |-> "invoke", id |-> NoneVal, raised |-> FALSE, status |-> 0,
     text |-> text, exists |-> exists, duration |-> duration, use_cache |-> use_cache]

\* The node is invoked: the local checks, get_access_token(), and the cache
\* lookup (lines 1241-1316)
\* The invocations followed here differ in their audio file and share one
\* model type (CloneBegin draws both).
CloneInvoke ==
    /\ cs.pc \in {"idle", "done", "failed"}
    /\ \E text \in Texts, exists \in BOOLEAN, duration \in Durations,
          h \in Hashes, m \in {model_type_unused}, use_cache \in {"enabled", "disabled"},
          tok \in {"ok", "raise"} :
         LET inv == InvokeEv(text, exists, duration, use_cache)
             err == LocalError(text, exists, duration)
             enable_cache == EnableCache(use_cache)
             r == VoiceCloneCache_get(_cache, cache_file, h, m)
             cached == IF enable_cache THEN r.ret ELSE NoneVal
         IN
         IF err # "none" \/ tok = "raise"
           THEN /\ h = audio_hash_unused /\ m = model_type_unused
                /\ err # "none" => tok = "ok"
                /\ cs' = [CsIdle EXCEPT
                            !.pc = "failed",
                            !.log = << inv, Cev(IF err # "none" THEN "invalid"
                                                ELSE "token_raised", err, NoOutcome) >>]
                /\ UNCHANGED _cache
           ELSE /\ _cache' = IF enable_cache THEN r.cache ELSE _cache
                /\ cs' = [CsIdle EXCEPT
                            !.audio_hash = h, !.model_type = m,
                            !.enable_cache = enable_cache,
                            !.cached_voice_id = cached,
                            !.pc = IF Truthy(cached) THEN "validate" ELSE "upload",
                            !.log = << inv, Cev("token", NoneVal, NoOutcome),
                                       Cev("cache_get", cached, NoOutcome) >>]
    /\ UNCHANGED <<cache_file, vc, voices, timeVars, authVars, overlapVars, nodeVars,
                   jobVars, rateVars, reqVars>>

\* create_audio_task is sent with audio_man = voice_id (lines 1385-1397)
CloneSynthCreate ==
    /\ cs.pc = "synth"
    /\ \E o \in {"synth_poll", "failed"} :
         cs' = [cs EXCEPT !.pc = o,
                          !.log = Append(cs.log, Cev("synth", cs.voice_id, NoOutcome))]
    /\ UNCHANGED <<voices, cacheVars, timeVars, authVars, overlapVars, nodeVars,
                   jobVars, rateVars, reqVars>>

\* _poll_audio_synthesis returns the audio url or raises (line 1401)
CloneSynthPoll ==
    /\ cs.pc = "synth_poll"
    /\ \E o \in {"download", "failed"} :
         cs' = IF o = "download"
                 THEN [cs EXCEPT !.pc = o,
                                 !.log = Append(cs.log,
                                            Cev("synth_url", cs.voice_id, NoOutcome))]
                 ELSE [cs EXCEPT !.pc = o]
    /\ UNCHANGED <<voices, cacheVars, timeVars, authVars, overlapVars, nodeVars,
                   jobVars, rateVars, reqVars>>

\* _download_audio(audio_url) and the loading of the file (lines 1404-1417)
CloneDownload ==
    /\ cs.pc = "download"
    /\ \E o \in {"done", "failed"} :
         cs' = [cs EXCEPT !.pc = o,
                          !.log = Append(cs.log, Cev("download", cs.voice_id, NoOutcome))]
    /\ UNCHANGED <<voices, cacheVars, timeVars, authVars, overlapVars, nodeVars,
                   jobVars, rateVars, reqVars>>

\* ----------------------------------------- CicadaLipSyncNode.create_lip_sync
\* The options INPUT_TYPES declares for "model"
LipSyncModels == {"cicada-lip-sync", "cicada-lip-sync-pro"}
\* "model_value = 1 if model == 'cicada-lip-sync pro' else 0"
ModelValue(model) == IF model = "cicada-lip-sync pro" THEN 1 ELSE 0

LsIdle == [pc |-> "idle", model |-> "", log |-> << >>]
Lev(ev, v) == [ev |-> ev, v |-> v]
\* The node is invoked; the two input files exist or one does not.  One
\* invocation is followed (the clock only moves on during its uploads).
LipBegin ==
    /\ ls.pc = "idle"
    /\ cs.pc = "idle"
    /\ up.pc = "idle"
    /\ \E model \in LipSyncModels, exists \in BOOLEAN :
         ls' = [LsIdle EXCEPT !.model = model,
                              !.pc = IF exists THEN "token" ELSE "failed"]
    /\ UNCHANGED <<ub, timeVars, authVars, overlapVars, jobVars, rateVars, reqVars,
                   cacheVars, cloneVars>>

\* get_access_token() returns or raises
LipToken ==
    /\ ls.pc = "token"
    /\ \E o \in {"upload_video", "failed"} :
         ls' = [ls EXCEPT !.pc = o,
                          !.log = IF o = "failed" THEN @
                                  ELSE Append(@, Lev("token", 0))]
    /\ UNCHANGED <<ub, timeVars, authVars, overlapVars, jobVars, rateVars, reqVars,
                   cacheVars, cloneVars>>

\* upload_file for the video, then for the audio: the request for the upload
\* url or the PUT raises, or the wait for the file to be synced begins
LipUploadStart ==
    /\ ls.pc \in {"upload_video", "upload_audio"}
    /\ \/ /\ ls' = [ls EXCEPT !.pc = "failed"]
          /\ UNCHANGED up
       \/ /\ ls' = [ls EXCEPT !.pc = IF ls.pc = "upload_video" THEN "uploading_video"
                                                              ELSE "uploading_audio"]
          /\ up' = [UpIdle EXCEPT !.pc = "loop", !.poll_start = now]
    /\ UNCHANGED <<ub, pl, pg, timeVars, authVars, overlapVars, rateVars, reqVars,
                   cacheVars, cloneVars>>

\* upload_file returned or raised
LipUploadEnd ==
    /\ ls.pc \in {"uploading_video", "uploading_audio"}
    /\ up.pc \in {"returned", "raised"}
    /\ ls' = IF up.pc = "raised" THEN [ls EXCEPT !.pc = "failed"]
             ELSE [ls EXCEPT !.pc = IF ls.pc = "uploading_video" THEN "upload_audio"
                                                                 ELSE "create",
                             !.log = Append(@, Lev(ls.pc, IF up.seen_synced THEN 1 ELSE 0))]
    /\ up' = UpIdle
    /\ UNCHANGED <<ub, pl, pg, timeVars, authVars, overlapVars, rateVars, reqVars,
                   cacheVars, cloneVars>>

\* The job-create request is sent with "model": model_value; it gives a
\* task id or raises
LipCreate ==
    /\ ls.pc = "create"
    /\ \E o \in {"poll", "failed"} :
         ls' = [ls EXCEPT !.pc = o,
                          !.log = Append(@, Lev("create", ModelValue(ls.model)))
                                    \o (IF o = "poll" THEN << Lev("created", 0) >>
                                                      ELSE << >>)]
    /\ UNCHANGED <<ub, timeVars, authVars, overlapVars, jobVars, rateVars, reqVars,
                   cacheVars, cloneVars>>

\* _poll_lip_sync(task_id, ...) returns the video url or raises
LipPoll ==
    /\ ls.pc = "poll"
    /\ \E o \in {"done", "failed"} :
         ls' = [ls EXCEPT !.pc = o, !.log = Append(@, Lev("poll", 0))]
    /\ UNCHANGED <<ub, timeVars, authVars, overlapVars, jobVars, rateVars, reqVars,
                   cacheVars, cloneVars>>

\* --------------------------------------------------------- specifications
Init ==
    /\ InitAuth
    /\ _timestamps = EmptyDict
    /\ rl = NoWait
    /\ calls = 0
    /\ rq = RqIdle
    /\ _cache = CacheInit
    /\ cache_file = CacheFileMissing
    /\ vc = NoCacheCall
    /\ cs = CsIdle
    /\ voices = 0
    /\ pl = PlIdle
    /\ up = UpIdle
    /\ pg = PgNone
    /\ tw = TwIdle
    /\ ta = TaIdle
    /\ rf = RfIdle
    /\ ls = LsIdle
    /\ ub = UbIdle

SpecAuth == Init /\ [][NextAuth]_vars

SpecJson == Init /\ [][NextJson]_vars

\* api_json_request over the token manager, the refresh request being an
\* api_json_request call itself
NextRefresh == RefreshGetToken \/ Tick \/ RefreshJsonCall \/ RefreshJsonReissue

SpecRefresh == Init /\ [][NextRefresh]_vars

\* A call that was begun runs on
SpecRefreshFair == SpecRefresh /\ WF_vars(RefreshJsonReissue)

\* A serial caller of the rate limiter
NextRate == Wait \/ RateTick

SpecRate == Init /\ [][NextRate]_vars

\* api_request over the rate limiter
NextReq == ReqCall \/ ReqAttempt

SpecReq == Init /\ [][NextReq]_vars

\* requests.request() always ends: the timeout defaults to 30 s
SpecReqFair == SpecReq /\ WF_vars(ReqAttempt)

\* Callers of the voice clone cache
NextCache == CachePut \/ CacheGet \/ CacheRemove \/ CacheRestart

SpecCache == Init /\ [][NextCache]_vars

\* Invocations of the voice clone node over the cache
NextClone ==
    \/ CloneBegin \/ CloneValidate \/ CloneUpload \/ CloneCreate
    \/ ClonePoll \/ CloneSynth \/ CacheRestart

SpecClone == Init /\ [][NextClone]_vars

\* One call of one of the three job pollers
NextPoll == PollStart \/ PollIteration

\* A poller runs once credentials are configured and a token was obtained
InitJob == Init /\ config_file = CfgA

SpecPoll == InitJob /\ [][NextPoll]_vars

\* A job that never reaches a terminal status; an iteration of a poll loop
\* always ends, since every request has a timeout
NextPollWaiting == PollStart \/ PollWaiting

SpecPollFair == InitJob /\ [][NextPollWaiting]_vars /\ WF_vars(PollWaiting)

\* The sync wait of one upload
NextUpload == UploadPollStart \/ UploadPollIteration

SpecUpload == InitJob /\ [][NextUpload]_vars

\* One progress bar and the calls made on it
NextProgress ==
    \/ ProgressNew
    \/ ProgressStart
    \/ ProgressAdvance
    \/ ProgressUpdate
    \/ ProgressFinish

SpecProgress == Init /\ [][NextProgress]_vars

\* The PUT of upload_file over the rate limiter
NextPut == PutCall \/ PutAttempt

SpecPut == Init /\ [][NextPut]_vars

\* Invocations of the two nodes, followed from their call on; a run follows
\* the node that is invoked first
NextNodes ==
    \/ LipBegin \/ LipToken \/ LipUploadStart \/ UploadPollIteration \/ LipUploadEnd
    \/ LipCreate \/ LipPoll
    \/ (ls.pc = "idle" /\ CloneInvoke)
    \/ CloneValidate \/ CloneUpload \/ CloneCreate \/ ClonePoll
    \/ CloneSynthCreate \/ CloneSynthPoll \/ CloneDownload

SpecNodes == Init /\ [][NextNodes]_vars

\* Two overlapping callers of the rate limiter
NextWaitOverlap ==
    \/ OverlapPrior
    \/ RateTick
    \/ \E i \in Threads : OverlapEnter(i) \/ OverlapWake(i) \/ OverlapStamp(i)

SpecWaitOverlap == InitJob /\ [][NextWaitOverlap]_vars

\* Two overlapping callers of the token manager, one of which may also call
\* reset(), while config.json can be edited
NextTokenOverlap ==
    \/ \E i \in Threads : AuthEnter(i) \/ AuthReply(i)
    \/ Reset
    \/ EditConfig

SpecTokenOverlap == InitJob /\ [][NextTokenOverlap]_vars

\* ------------------------------------------------------ claims: CicadaAuth
Returned == gt.called /\ gt.raised = "none"

\* C1: whenever get_token() returns a token, the expiry bound to it
\* satisfies start < expire_time - 300 s, start being the time the call
\* began; a held token that fails this test is never the one returned.
C1_TokenFresh ==
    Returned =>
      /\ Truthy(gt.ret)
      /\ gt.ret = auth._token
      /\ gt.start < gt.expire - EarlyRefresh

\* A stale token was held and the call returned after a refresh
C1_Witness == Returned /\ gt.held_stale /\ gt.path = "refresh"

\* C2: every token get_token() returns was issued for, and is bound to, the
\* fingerprint of the credentials config.json holds at the call.
C2_BoundToDiskCredentials ==
    Returned =>
      /\ gt.bound = gt.disk_fp
      /\ \E i \in 1..Len(issued) : TokName(i) = gt.ret
      /\ \A i \in 1..Len(issued) : TokName(i) = gt.ret => issued[i] = gt.disk_fp

\* A usable token was held under another fingerprint, and the call returned
C2_Witness == Returned /\ gt.held_other /\ gt.path = "refresh"

\* C3 (as claimed): the get_token() that follows reset() performs a refresh
\* call before it returns, whatever the token cache file holds.
C3_ResetForcesRefresh ==
    (Returned /\ gt.after_reset) => gt.requested

\* ------------------------------------------------ claims: api_json_request
JrEnded == jr.pc \in {"returned", "raised"}

\* C4: on an auth code on the first issue, reset() and then get_token() are
\* called; when get_token() returns, the request is issued once more with
\* the returned value in the access_token header; no call is issued more
\* than twice.
C4_ReissueOnce ==
    /\ jr.sends <= 2
    /\ Len(jr.log) >= 2 =>
         /\ jr.log[1].ev = "send" /\ jr.log[2].ev = "reset"
         /\ Len(jr.log) >= 3
         /\ jr.log[3].ev \in {"get_token", "get_token_raised"}
         /\ jr.log[3].ev = "get_token_raised" => (jr.pc = "raised" /\ Len(jr.log) = 3)
         /\ jr.log[3].ev = "get_token" =>
              /\ jr.log[3].tok = gt.ret \/ ~gt.called
              /\ jr.pc = "send" => (jr.sends = 1 /\ jr.hdr = jr.log[3].tok /\ Len(jr.log) = 3)
              /\ JrEnded => (jr.sends = 2 /\ jr.log[4] = Ev("send", jr.log[3].tok)
                             /\ Len(jr.log) = 4)
    /\ (JrEnded /\ jr.sends = 1 /\ Len(jr.log) = 1) =>
         ~(jr.last.net = "ok" /\ jr.last.code \in AuthCodes)

\* The first issue was rejected, the re-issue succeeded
C4_Witness == jr.pc = "returned" /\ jr.sends = 2

\* C5: when the re-issued request is answered with an auth code again, the
\* call ends with an error that names the credential file and the URL where
\* credentials are obtained, after one reset and one get_token in all.
C5_SecondAuthFailureTerminal ==
    (jr.sends >= 2 /\ jr.last.net = "ok" /\ jr.last.code \in AuthCodes) =>
      /\ jr.pc = "raised"
      /\ jr.sends = 2
      /\ Cardinality({k \in 1..Len(jr.log) : jr.log[k].ev = "reset"}) = 1
      /\ Cardinality({k \in 1..Len(jr.log) : jr.log[k].ev = "get_token"}) = 1
      /\ {"CONFIG_FILE", "api_keys_url"} \subseteq jr.err

C5_Witness ==
    jr.pc = "raised" /\ jr.sends = 2 /\ jr.last.net = "ok" /\ jr.last.code \in AuthCodes

\* ------------------------------------------------------ claims: api_request
RqEnded == rq.pc \in {"returned", "raised"}
Sends(log) == {k \in 1..Len(log) : log[k].ev = "send"}
ConnOrTimeout == {"ConnectionError", "Timeout"}

C6_Shape ==
    LET log == rq.log IN
    /\ Cardinality(Sends(log)) <= rq.max_retries
    /\ \A k \in 1..Len(log) :
         /\ (log[k].ev = "send") <=> (k % 2 = 1)
         /\ log[k].ev = "sleep" =>
              /\ log[k - 1].out \in ConnOrTimeout
              /\ log[k].d = rq.retry_delay
              /\ k < Len(log) => log[k + 1].at >= log[k - 1].at + rq.retry_delay
    /\ rq.pc = "loop" => Len(log) = 2 * (rq.attempt - 1)
    /\ RqEnded => (Len(log) = 0 \/ log[Len(log)].ev = "send")
    /\ RqEnded =>
         ((\A k \in Sends(log) : log[k].out \in ConnOrTimeout)
            <=> /\ rq.pc = "raised"
                /\ rq.err = ExhaustedMsg
                /\ Cardinality(Sends(log)) = rq.max_retries)

\* C6: api_request makes at most max_retries send attempts; a further attempt
\* follows only a connection or timeout error, after a sleep of retry_delay;
\* nothing is slept after the last attempt; when every attempt failed that way
\* the call raises the terminal error; and every call ends.
C6_BoundedRetries == []C6_Shape /\ ((rq.pc = "loop") ~> RqEnded)

C6_Witness ==
    /\ rq.pc = "raised"
    /\ rq.err = ExhaustedMsg
    /\ rq.max_retries = DefaultMaxRetries
    /\ Len(rq.log) = 2 * DefaultMaxRetries - 1

\* C7: a send attempt that ends with an HTTP status error is the last thing
\* the call does: the error is raised, no attempt follows and nothing is slept.
C7_HttpErrorImmediate ==
    \A k \in 1..Len(rq.log) :
        (rq.log[k].ev = "send" /\ rq.log[k].out = "HTTPError") =>
            /\ k = Len(rq.log)
            /\ rq.pc = "raised"
            /\ rq.err = "HTTPError"
            /\ now = rq.log[k].at

C7_Witness ==
    /\ rq.pc = "raised"
    /\ rq.err = "HTTPError"
    /\ rq.attempt = 2
    /\ rq.max_retries = DefaultMaxRetries

\* ------------------------------------------------------ claims: RateLimiter
\* The intervals the specification gives, in ticks
ExpectedInterval(c) ==
    CASE c = "tts" -> TPS \div 2
      [] c \in {"lip_sync", "voice_clone"} -> 6 * TPS
      [] OTHER -> TPS

\* C8: the time a wait(c) call records is at least the interval of c after the
\* time the previous wait(c) call recorded; the call sleeps only for its own
\* category, and leaves the recorded times of the other categories alone.
C8_IntervalKept ==
    rl.called =>
        /\ _timestamps[rl.cat] = rl.stamp
        /\ rl.had_prev => rl.stamp - rl.prev >= ExpectedInterval(rl.cat)
        /\ (~rl.had_prev \/ rl.start - rl.prev >= ExpectedInterval(rl.cat))
              => (rl.slept = 0 /\ rl.stamp = rl.start)
        /\ rl.had_prev => rl.slept <= ExpectedInterval(rl.cat)
        /\ \A c \in AllCategories \ {rl.cat} :
              /\ c \in DOMAIN _timestamps <=> c \in DOMAIN rl.before
              /\ c \in DOMAIN rl.before => _timestamps[c] = rl.before[c]

C8_Witness ==
    /\ rl.called
    /\ rl.cat = UnknownCategory
    /\ rl.had_prev
    /\ rl.slept > 0
    /\ \E c \in DOMAIN rl.before : c # rl.cat /\ rl.before[c] > rl.prev

\* -------------------------------------------------- claims: VoiceCloneCache
\* C9: right after put(h, m, v), get(h, m) returns v; right after
\* remove(h, m), get(h, m) returns None; and remove of a key that is absent
\* changes neither the mapping nor the file.
C9_PutGetRemove ==
    /\ vc.op = "put" =>
          VoiceCloneCache_get(_cache, cache_file, vc.h, vc.m).ret = vc.v
    /\ vc.op = "remove" =>
          VoiceCloneCache_get(_cache, cache_file, vc.h, vc.m).ret = NoneVal
    /\ (vc.op = "remove" /\ vc.absent) => ~vc.changed

C9_Witness ==
    /\ vc.op = "remove"
    /\ ~vc.absent
    /\ Cardinality(DOMAIN _cache.d) >= 2
    /\ cache_file.state = "ok"
    /\ cache_file.d # _cache.d

\* --------------------------------------------- claims: clone_and_synthesize
\* The status query of the cached id returned a status other than done
StaleAt(k) ==
    /\ cs.log[k].ev = "validate"
    /\ ~cs.log[k].raised
    /\ cs.log[k].status # 2

Before(ev, j) == {k \in 1..(j - 1) : cs.log[k].ev = ev}

\* C10: with the cache enabled, when the status query of a cache hit returns a
\* status other than done, the entry is removed at once and stays absent until
\* a new clone is cached, and a synthesis request is only sent after an upload,
\* a create and a finished poll, with the id the create returned, which is
\* not the cached id.
C10_StaleHitRecloned ==
    \A k \in 1..Len(cs.log) : StaleAt(k) =>
        /\ cs.enable_cache
        /\ k < Len(cs.log)
        /\ cs.log[k + 1].ev = "remove"
        /\ cs.cached_voice_id = NoneVal
        /\ (\A j \in 1..Len(cs.log) : cs.log[j].ev # "put") =>
              VoiceCloneCache_get(_cache, cache_file, cs.audio_hash,
                                  cs.model_type).ret = NoneVal
        /\ \A j \in 1..Len(cs.log) : cs.log[j].ev = "synth" =>
              /\ cs.log[j].id # cs.log[k].id
              /\ \E c \in Before("create", j) :
                    /\ c > k
                    /\ cs.log[c].id = cs.log[j].id
                    /\ \E u \in Before("upload", c) : u > k
                    /\ \E q \in Before("poll_done", j) : q > c

C10_Witness ==
    /\ cs.pc = "done"
    /\ \E k \in 1..Len(cs.log) : StaleAt(k) /\ cs.log[k].status = 3
    /\ \E j \in 1..Len(cs.log) : cs.log[j].ev = "synth"

\* ----------------------------------------------------- claims: job pollers
\* The iteration that just ran got a response
Got(kind) == pl.kind = kind /\ pl.polled /\ pl.resp.ok
PlEnded == pl.pc \in {"returned", "raised"}
\* The response differs from the one remembered before the step
Differs == pl'.resp.status # pl.last_status \/ pl'.resp.progress # pl.last_progress

C11_Reports ==
    Got("lip_sync") =>
        /\ pl.resp.status = 0 => \A i \in 1..Len(pl.reports) : pl.reports[i] <= 15
        /\ pl.resp.status = 10 => pl.reports \in {<< >>, << pl.resp.progress >>}
        /\ (pl.resp.status = 20 /\ pl.resp.url # "") =>
              (pl.pc = "returned" /\ pl.ret = pl.resp.url)
        /\ pl.pc = "returned" => (pl.resp.status = 20 /\ pl.ret = pl.resp.url)

C11_Step ==
    (pl'.kind = "lip_sync" /\ pl'.polled /\ pl'.resp.ok /\ Differs
        /\ pl'.resp.status \in {0, 10}) =>
       /\ Len(pl'.reports) = 1
       /\ pl'.resp.status = 10 => pl'.reports[1] = pl'.resp.progress
       /\ pl'.resp.status = 0 =>
             \/ pl'.reports[1] = pl'.resp.progress
             \/ pl'.reports[1] = 15 /\ pl'.resp.progress > 15

\* C11: in the lip-sync poll, what is reported while queued is never above 15;
\* while rendering a changed remote percentage is reported as it is, lower
\* than before or not; a status 20 response with a url returns that url.
C11_LipSyncProgress == []C11_Reports /\ [][C11_Step]_vars

C11_Witness ==
    /\ Got("lip_sync")
    /\ pl.resp.status = 10
    /\ pl.reports = << pl.resp.progress >>
    /\ pl.before = 15
    /\ pl.resp.progress < pl.before

\* C12: the lip-sync and the synthesis poll never return an empty url: a
\* success response without a url ends the poll with an error.
C12_NoEmptyUrl ==
    /\ (pl.pc = "returned" /\ pl.kind \in {"lip_sync", "synthesis"}) => pl.ret # ""
    /\ (Got("lip_sync") /\ pl.resp.status = 20 /\ pl.resp.url = "") =>
          (pl.pc = "raised" /\ pl.err = "no_url")
    /\ (Got("synthesis") /\ pl.resp.status = 9 /\ pl.resp.msg = << >>
          /\ pl.resp.url = "") => (pl.pc = "raised" /\ pl.err = "no_url")

C12_Witness == Got("synthesis") /\ pl.err = "no_url"

\* The server messages that hold a billing keyword ("余额不足", "欠费")
BillingMsgs == {<<"ren", "wu", "yu", "e", "bu", "zu">>, <<"qian", "fei">>}

JobFailure ==
    \/ Got("lip_sync") /\ pl.resp.status = 30
    \/ Got("voice_clone") /\ pl.resp.status = 4
    \/ Got("synthesis") /\ pl.resp.status = 9 /\ pl.resp.msg # << >>

\* C13: when a job reaches its failure state the poll ends with the billing
\* error if the message holds a billing keyword, and with the generic failure
\* carrying the message otherwise.
C13_BillingFirst ==
    JobFailure =>
        /\ pl.pc = "raised"
        /\ pl.errmsg = pl.resp.msg
        /\ pl.err = IF pl.resp.msg \in BillingMsgs THEN "billing" ELSE "failed"

C13_Witness ==
    /\ Got("synthesis")
    /\ pl.resp.status = 9
    /\ Contains(pl.resp.msg, <<"yu", "e", "bu", "zu">>)
    /\ pl.err = "billing"

C14_Outcome ==
    pl.kind = "voice_clone" =>
        /\ pl.pc = "returned" => (pl.polled /\ pl.resp.ok /\ pl.resp.status = 2)
        /\ Got("voice_clone") =>
              /\ pl.resp.status = 2 => pl.pc = "returned"
              /\ pl.resp.status = 4 =>
                    (pl.pc = "raised" /\ pl.err \in {"failed", "billing"})
              /\ pl.resp.status = 3 => (pl.pc = "raised" /\ pl.err = "expired")
              /\ pl.resp.status = 99 => (pl.pc = "raised" /\ pl.err = "deleted")
              /\ pl.resp.status \in {0, 1} =>
                    (pl.pc = "loop" /\ pl.reports \in {<< >>, << pl.resp.progress >>})

C14_Step ==
    (pl'.kind = "voice_clone" /\ pl'.polled /\ pl'.resp.ok /\ Differs
        /\ pl'.resp.status \in {0, 1}) => pl'.reports = << pl'.resp.progress >>

\* C14: the voice-clone poll returns exactly on a status 2 response; status 4
\* ends with the failure error, 3 and 99 each with their own error; on 0 and 1
\* it keeps polling and a changed remote percentage is reported as it is.
C14_CloneOutcomes == []C14_Outcome /\ [][C14_Step]_vars

C14_Witness ==
    /\ Got("voice_clone")
    /\ pl.resp.status = 1
    /\ pl.reports = << 40 >>
    /\ pl.before = 100

\* C15: the estimates reported while synthesis is processing never decrease
\* and never exceed 95; 100 is reported only on a status 9 response with no
\* error message and a url.
C15_EstimateMonotone ==
    pl.kind = "synthesis" =>
        \A i \in 1..Len(pl.reports) :
            /\ pl.reports[i] >= pl.before
            /\ pl.reports[i] > 95 =>
                  /\ pl.reports[i] = 100
                  /\ pl.resp.ok /\ pl.resp.status = 9
                  /\ pl.resp.msg = << >> /\ pl.resp.url # ""
            /\ (pl.resp.ok /\ pl.resp.status = 1) => pl.reports[i] <= 95

C15_Witness ==
    /\ Got("synthesis")
    /\ pl.resp.status = 1
    /\ pl.reports = << 95 >>
    /\ pl.before = 94

C16_Counter ==
    pl.kind \in {"voice_clone", "synthesis"} =>
        /\ pl.consecutive_errors <= 5
        /\ pl.err = "abandoned" <=> pl.consecutive_errors = 5
        /\ pl.err = "abandoned" => (pl.pc = "raised" /\ pl.polled /\ ~pl.resp.ok)

C16_Step ==
    (pl'.kind \in {"voice_clone", "synthesis"} /\ pl'.polled) =>
        IF pl'.resp.ok
        THEN pl'.consecutive_errors = 0
        ELSE /\ pl'.consecutive_errors = pl.consecutive_errors + 1
             /\ pl'.consecutive_errors < 5 => pl'.pc = "loop"

\* C16: in the voice-clone and synthesis polls a failed request is tolerated
\* while fewer than 5 have failed in a row, the 5th in a row ends the poll,
\* and a request that succeeds puts the count back to 0.
C16_ErrorBudget == []C16_Counter /\ [][C16_Step]_vars

C16_Witness ==
    /\ pl.kind = "synthesis"
    /\ pl.err = "abandoned"
    /\ pl.poll_count > 0

\* The wait limits, in ticks
Limit == IF pl.kind = "lip_sync" THEN 1800 * TPS ELSE 600 * TPS
\* Elapsed time at the top of the iteration that just ran
ElapsedAtTop == (IF pl.pc = "loop" THEN now - PollSleep(pl) ELSE now) - pl.start

C17_NoLateRequest ==
    pl.kind # "" =>
        /\ pl.err = "timeout" => (~pl.polled /\ now - pl.start > Limit)
        /\ pl.polled => ElapsedAtTop <= Limit

\* C17: a poll that only ever sees non-terminal or unknown statuses and
\* tolerated request failures ends, with the timeout error once the elapsed
\* time is above the limit (1800 s lip-sync, 600 s the others) unless it ended
\* earlier on failed requests; no request is made in an iteration that starts
\* above the limit.
C17_PollTerminates ==
    /\ []C17_NoLateRequest
    /\ (pl.pc = "loop") ~> (pl.pc = "raised" /\ pl.err \in {"timeout", "abandoned", "request_failed"})

C17_Witness ==
    /\ pl.kind = "synthesis"
    /\ pl.err = "timeout"
    /\ now - pl.start <= Limit + 5 * TPS
    /\ pl.poll_count > 0
    /\ pl.consecutive_errors > 0

\* ----------------------------------------------------- claims: upload_file
UpEnded == up.pc \in {"returned", "raised"}

\* The part of C18 about a normal return
ReturnsOnlySynced ==
    /\ up.pc = "returned" => (up.polled /\ up.resp.ok /\ up.resp.status = 1)
    /\ (UpEnded /\ ~up.seen_synced) => up.pc = "raised"

\* C18: upload_file returns only after a status 1 response; without one it
\* ends with an unusable-status error or with the timeout error.
C18_ReturnsOnlySynced ==
    /\ ReturnsOnlySynced
    /\ (UpEnded /\ ~up.seen_synced) => up.err \in {"unavailable", "timeout"}

\* --------------------------------------------------- claims: CicadaProgress
LastStage == Len(pg.stages) - 1
\* start_pct is the running sum of the spans before the stage
Cumulative ==
    \A i \in DOMAIN pg.stages :
        pg.stages[i].start_pct =
            IF i = 1 THEN Zero
            ELSE FAdd(pg.stages[i - 1].start_pct, pg.stages[i - 1].span_pct)
\* The spans add up to 100, to within one unit
SpansTotal ==
    LET last == pg.stages[Len(pg.stages)]
    IN  Trunc(FAdd(last.start_pct, last.span_pct)) \in {99, 100}

\* C19: the spans sum to 100 and each start_pct is the sum of the spans
\* before it; update(0) in a stage displays the stage's start percentage and
\* update(100) in the last stage displays 100.
C19_SpansPartition ==
    pg.pc = "made" =>
        /\ Cumulative
        /\ SpansTotal
        /\ (pg.op = "update" /\ pg.arg = 0 /\ pg._stage_idx >= 0) =>
              (pg.displayed
                 /\ pg.shown = Trunc(pg.stages[pg._stage_idx + 1].start_pct))
        /\ (pg.op = "update" /\ pg.arg = 100 /\ pg._stage_idx = LastStage) =>
              (pg.displayed /\ pg.shown = 100)

\* C20: whatever calls are made, a displayed percentage is an integer from 0
\* to 100, and finish() displays 100.
C20_DisplayClamped ==
    /\ pg.displayed => pg.shown \in 0..100
    /\ pg.op \in {"start", "finish"} => pg.displayed
    /\ pg.op = "finish" => pg.shown = 100

C20_Witness ==
    /\ pg.op = "update"
    /\ pg.arg = -50
    /\ pg._stage_idx = 0
    /\ Len(pg.stages) > 1
    /\ pg.displayed
    /\ pg.shown = 0

\* ---------------------------------------------- claims: CicadaAuth, part 2
\* config.json holds usable credentials
ValidConfigs == {CfgA, CfgAPadded, CfgB}
\* Nothing is held: no token in memory, no token cache file
FirstRun ==
    /\ config_file \in ValidConfigs
    /\ auth._token = NoneVal
    /\ token_file.kind = "missing"
\* The record of the token the call returned
ReturnedRecord ==
    [kind |-> "json", access_token |-> gt'.ret, expire_time |-> now' + TokenTTL,
     config_hash |-> DiskFingerprint(config_file)]
\* The call made one refresh request and returned the token it obtained
RefreshedOnce ==
    /\ gt'.requested
    /\ gt'.raised = "none" =>
          /\ gt'.ret = TokName(Len(issued) + 1)
          /\ Len(issued') = Len(issued) + 1

\* C21 (as claimed): on a first run get_token() makes one refresh request and
\* returns the token obtained, and afterwards the token cache file holds the
\* token, the expiry (24 h after the refresh) and the fingerprint.
C21_FirstRunPersisted ==
    [][(FirstRun /\ gt'.called) =>
          /\ RefreshedOnce
          /\ gt'.raised = "none" => token_file' = ReturnedRecord]_vars

\* C21 (amended): the same, except that the write of the token cache file may
\* fail, in which case the file holds no record at all.
C21_FirstRunBestEffort ==
    [][(FirstRun /\ gt'.called) =>
          /\ RefreshedOnce
          /\ gt'.raised = "none" =>
                (token_file' = ReturnedRecord \/ token_file'.kind # "json")]_vars

C21_Witness ==
    /\ Returned
    /\ gt.path = "refresh"
    /\ Len(issued) = 1
    /\ env = 0
    /\ token_file.kind = "json"
    /\ token_file.access_token = gt.ret
    /\ token_file.expire_time = now + TokenTTL

\* What get_token() raises for each unusable config.json
ConfigErrorOf(f) ==
    CASE f = CfgMissing -> "FileNotFoundError"
      [] f = CfgBadJson -> "BadJson"
      [] f = CfgEmpty -> "EmptyCredential"
      [] f = CfgPlaceholder -> "Placeholder"
      [] OTHER -> "none"
\* The access-token endpoint answers without a token
NoTokenResponses ==
    {[kind |-> "ok", access_token |-> NoneVal], [kind |-> "ok", access_token |-> EmptyStr]}

\* C22: with config.json missing, not JSON, with an empty credential or with
\* a placeholder, get_token() raises the configuration error without a
\* request and returns nothing, whatever token is held; and a refresh that
\* is answered without a token ends get_token() with an error.
C22_ConfigErrorFirst ==
    /\ (gt.called /\ config_file \notin ValidConfigs) =>
          /\ gt.raised = ConfigErrorOf(config_file)
          /\ gt.raised # "none"
          /\ ~gt.requested
          /\ gt.ret = NoneVal
    /\ gt.raised = "EmptyAccessToken" => (gt.requested /\ gt.ret = NoneVal)
    /\ \A resp \in NoTokenResponses :
          LET r == get_token(auth, config_file, token_file, now, now, resp, "ok")
          IN  r.requested => (r.raised = "EmptyAccessToken" /\ r.ret = NoneVal)

\* The call failed on a placeholder while an unexpired token is in memory
C22_Witness ==
    /\ gt.called
    /\ config_file = CfgPlaceholder
    /\ gt.raised = "Placeholder"
    /\ Truthy(auth._token)
    /\ now < auth._token_expire - EarlyRefresh

\* ---------------------------------------- claims: api_json_request, part 2
\* The events of the call after its k-th send
AfterSend(k) ==
    LET sends == {i \in 1..Len(jr.log) : jr.log[i].ev = "send"}
        at == CHOOSE i \in sends : Cardinality({x \in sends : x <= i}) = k
    IN  SubSeq(jr.log, at + 1, Len(jr.log))

C24_ReissueFresh ==
    jr.pc = "send" =>
        /\ gt.called
        /\ gt.requested
        /\ jr.hdr # jr.log[1].tok

\* --------------------------------------------- claims: job pollers, part 2
\* C25 (as claimed): a failed poll request does not end the lip-sync poll
\* unless it is the 5th failed request in a row.
C25_LipSyncTolerates ==
    (pl.kind = "lip_sync" /\ pl.polled /\ ~pl.resp.ok) =>
        (pl.pc = "loop" \/ pl.consecutive_errors >= 5)

\* ------------------------------------------ claims: overlapping callers
\* C26 (as claimed): two overlapping wait(c) calls for one category return at
\* least the interval of c apart.
C26_OverlapSpacing ==
    (\A i \in Threads : tw.th[i].pc = "done") =>
        \/ tw.th[1].returned - tw.th[2].returned >= ExpectedInterval(tw.cat)
        \/ tw.th[2].returned - tw.th[1].returned >= ExpectedInterval(tw.cat)

\* Never two refresh requests in flight
OneRefreshInFlight == ~(\A i \in Threads : ta.th[i].pc = "await")
\* The fingerprint kept with a token is the one of the credentials that
\* were sent in the request that obtained it
BoundToSent ==
    /\ Truthy(auth._token) =>
          \E k \in 1..Len(issued) :
              TokName(k) = auth._token /\ issued[k] = auth._token_config_hash
    /\ (token_file.kind = "json" /\ Truthy(token_file.access_token)) =>
          \E k \in 1..Len(issued) :
              TokName(k) = token_file.access_token /\ issued[k] = token_file.config_hash

\* C27 (as claimed): of two overlapping get_token() calls that find no usable
\* token at most one makes a refresh request, and the fingerprint kept with
\* the held and the persisted token is that of the credentials sent in the
\* request that obtained it.
C27_SingleRefresh == OneRefreshInFlight /\ BoundToSent

\* ------------------------------------------------ claims: api_request, part 2
\* C28 (as claimed): every send attempt of an api_request call, the first and
\* each retry, happens at least the interval of the call's rate category
\* after the send attempt before it.
C28_SendsSpaced ==
    \A j, k \in Sends(rq.log) :
        j < k => rq.log[k].at - rq.log[j].at >= ExpectedInterval(rq.category)

\* --------------------------------------------- claims: the refresh request
RefreshRejected ==
    rf.call.sends = 1 /\ rf.call.last.net = "ok" /\ rf.call.last.code \in AuthCodes

RefreshGuarded ==
    /\ rf.call.pc \in {"idle", "returned", "raised"}
    /\ rf.call.sends <= 1
    /\ \A k \in 1..Len(rf.call.log) : rf.call.log[k].ev = "send"
    /\ RefreshRejected =>
          /\ rf.call.pc = "raised"
          /\ "token_still_rejected" \in rf.call.err
          /\ gt.called =>
                (gt.requested /\ gt.raised = "RequestFailed" /\ gt.ret = NoneVal)
          /\ jr.pc \in {"idle", "raised"}
    /\ rf.n <= 1
    /\ jr.sends <= 2

\* C29: the refresh request is never followed by reset(), a nested
\* get_token() or a re-issue: answered with 10400 or 10401 it ends in an
\* error, and so do the get_token() and the api_json_request that made it;
\* one api_json_request call makes at most one refresh request, and a call
\* that goes on to its re-issue ends.
C29_RefreshGuarded == []RefreshGuarded /\ (jr.pc = "send" ~> JrEnded)

C29_Witness ==
    /\ RefreshRejected
    /\ jr.pc = "raised"
    /\ jr.sends = 1
    /\ rf.n = 1

\* ------------------------------------------------ claims: CicadaAuth, part 3
\* The credentials in config.json are valid and the token held in memory
\* passes the freshness test and is bound to their fingerprint
MemoryTokenGood ==
    /\ LoadConfigError(config_file) = "none"
    /\ TokenUsable(auth, now)
    /\ auth._token_config_hash = DiskFingerprint(config_file)

\* Memory is empty and the token cache file holds such a token
FileTokenGood ==
    /\ LoadConfigError(config_file) = "none"
    /\ auth._token = NoneVal
    /\ token_file.kind = "json"
    /\ Truthy(token_file.access_token)
    /\ now < token_file.expire_time - EarlyRefresh
    /\ token_file.config_hash = DiskFingerprint(config_file)

\* get_token() gives the same whatever the token cache file holds
FileNotRead ==
    \A tf \in {TokenFileMissing, TokenFileCorrupt} :
        LET r == get_token(auth, config_file, tf, now, now, RefreshRaises, "ok")
        IN  r.ret = auth._token /\ r.path = "memory" /\ ~r.requested /\ r.token_file = tf

\* C30: with unchanged credentials, get_token() returns a token that passes
\* the freshness test and is bound to the credentials' fingerprint without
\* a refresh request and without changing the token, its expiry or its
\* fingerprint: the one in memory whatever the token cache file holds, and
\* with empty memory the one in the token cache file.
C30_HeldTokenReturned ==
    [][gt'.called =>
         /\ MemoryTokenGood =>
              /\ gt'.path = "memory" /\ gt'.ret = auth._token /\ ~gt'.requested
              /\ auth'._token = auth._token
              /\ auth'._token_expire = auth._token_expire
              /\ auth'._token_config_hash = auth._token_config_hash
              /\ token_file' = token_file /\ issued' = issued
              /\ FileNotRead
         /\ FileTokenGood =>
              /\ gt'.path = "disk" /\ gt'.ret = token_file.access_token /\ ~gt'.requested
              /\ auth'._token = token_file.access_token
              /\ auth'._token_expire = token_file.expire_time
              /\ auth'._token_config_hash = token_file.config_hash
              /\ token_file' = token_file /\ issued' = issued]_vars

C30_Witness ==
    /\ gt.called /\ gt.path = "disk" /\ ~gt.after_reset /\ ~gt.requested
    /\ gt.ret = token_file.access_token
    /\ auth._token = token_file.access_token
    /\ Len(issued) = 1

\* The record of the triple held in memory
MemoryRecord(a) ==
    [kind |-> "json", access_token |-> a._token, expire_time |-> a._token_expire,
     config_hash |-> a._token_config_hash]

\* C31: a get_token() that refreshes and returns holds the new token, the
\* expiry 24 h after the refresh and the fingerprint of the credentials
\* sent; when the cache write succeeds the token cache file holds exactly
\* that triple, and when it fails the call returns the new token all the
\* same, the file being left as it was or unreadable.
C31_RecordEqualsMemory ==
    /\ (gt.called /\ gt.path = "refresh" /\ gt.raised = "none") =>
          /\ gt.ret = auth._token /\ Truthy(gt.ret)
          /\ gt.expire = now + TokenTTL
          /\ gt.bound = issued[Len(issued)]
          /\ token_file.kind = "json" /\ token_file.access_token = gt.ret
                => token_file = MemoryRecord(auth)
    /\ \A resp \in RefreshResponses(Len(issued)), save \in SaveOutcomes, lat \in Latencies :
          LET r == get_token(auth, config_file, token_file, now, now + lat, resp, save)
          IN  (r.path = "refresh" /\ r.raised = "none") =>
                /\ r.ret = resp.access_token /\ r.auth._token = r.ret
                /\ r.auth._token_expire = now + lat + TokenTTL
                /\ r.auth._token_config_hash
                      = _compute_config_hash(r.sent.app_id, r.sent.secret_key)
                /\ save = "ok" => r.token_file = MemoryRecord(r.auth)
                /\ save # "ok" => r.token_file \in {token_file, TokenFileCorrupt}

\* A refresh returned its token while the write failed and the file still
\* holds the record of the token before
C31_Witness ==
    /\ gt.called /\ gt.path = "refresh" /\ gt.raised = "none"
    /\ gt.ret = TokName(2)
    /\ token_file.kind = "json"
    /\ token_file.access_token = TokName(1)

\* --------------------------------------------- claims: upload_file, part 2
\* How the sync poll may end
SyncPollEnds ==
    /\ up.pc = "returned" => (up.polled /\ up.resp.ok /\ up.resp.status = 1)
    /\ up.pc = "raised" =>
          \/ up.err = "timeout" /\ now - up.poll_start > max_poll_wait
          \/ up.err = "unavailable" /\ up.resp.ok /\ up.resp.status \in {98, 99, 100}

\* An iteration that polled
Polled(ok, statuses) ==
    /\ up.pc = "loop"
    /\ now - up.poll_start <= max_poll_wait
    /\ up'.polled
    /\ up'.resp.ok = ok
    /\ up'.resp.status \in statuses

\* C32 (as claimed): the sync poll ends on status 1, on status 98, 99 or 100
\* with the error of that status, or with the timeout error once more than
\* 90 s have elapsed; a failed poll request and status 0 leave it polling,
\* 3 s later.
C32_SyncPollEnds ==
    /\ []SyncPollEnds
    /\ [][/\ Polled(TRUE, {1}) => up'.pc = "returned"
          /\ Polled(TRUE, {98, 99, 100}) => (up'.pc = "raised" /\ up'.err = "unavailable")
          /\ (Polled(FALSE, FileStatuses) \/ Polled(TRUE, {0})) =>
                (up'.pc = "loop" /\ now' = now + poll_interval)]_vars

\* ------------------------------------------- claims: CicadaProgress, part 2
UnknownStage == pg'.op = "advance" /\ pg'.arg \notin DOMAIN pg.stages
BeforeAdvance == pg'.op = "update" /\ pg._stage_idx < 0

\* C33: advance with a name the plan does not have, and update before any
\* advance found its stage, return normally, display nothing and leave the
\* cursor and the percentage on display as they were.
C33_UnknownStageIgnored ==
    [][(pg.pc = "made" /\ (UnknownStage \/ BeforeAdvance)) =>
          /\ pg'.pc = "made"
          /\ ~pg'.displayed
          /\ pg'.shown = pg.shown
          /\ pg'._stage_idx = pg._stage_idx
          /\ pg'.stages = pg.stages]_vars

\* An unknown name was passed while a later stage was on display
C33_Witness ==
    /\ pg.op = "advance"
    /\ pg.arg \notin DOMAIN pg.stages
    /\ pg._stage_idx > 0
    /\ pg.shown > 0
    /\ ~pg.displayed

\* --------------------------------------- claims: clone_and_synthesize, part 2
\* customised_audio statuses of a voice that is gone: expired, failed, deleted
GoneStatuses == {3, 4, 99}

\* C36 (as claimed): the invocation removes the cache entry only after a
\* status query that returned and found the voice expired, failed or
\* deleted; a status query that raised removes nothing.
C36_RemovedOnlyWhenGone ==
    \A k \in 1..Len(cs.log) : cs.log[k].ev = "remove" =>
        /\ k > 1
        /\ cs.log[k - 1].ev = "validate"
        /\ ~cs.log[k - 1].raised
        /\ cs.log[k - 1].status \in GoneStatuses

\* --------------------------------------------- claims: upload_file, part 3
\* C37 (as claimed): every attempt of the PUT, a retry included, sends the
\* file from its first block on, and an attempt that gets a response has
\* sent all of it.
C37_WholeBodyEachAttempt ==
    \A k \in 1..Len(ub.log) :
        /\ ub.log[k].from = 0
        /\ ub.log[k].out = "ok" => ub.log[k].sent = ub._total

\* ------------------------------------------------ claims: create_lip_sync
\* C38 (as claimed): the job-create request carries model = 1 when the node's
\* model input is "cicada-lip-sync-pro" and model = 0 when it is
\* "cicada-lip-sync".
C38_ModelValueSent ==
    \A k \in 1..Len(ls.log) : ls.log[k].ev = "create" =>
        ls.log[k].v = (IF ls.model = "cicada-lip-sync-pro" THEN 1 ELSE 0)

\* --------------------------------------- claims: clone_and_synthesize, part 3
\* The events of a log that stand for a request to the remote side
RemoteEvents ==
    {"token", "token_raised", "cache_get", "validate", "upload", "create",
     "poll_done", "synth", "synth_url", "download"}
\* The inputs the running invocation was called with
Invoked == cs.log[1]
LocallyInvalid(inv) ==
    \/ inv.text.len = 0 \/ inv.text.stripped = 0
    \/ inv.text.len > TextLimit
    \/ ~inv.exists
    \/ (inv.duration # NoDuration /\ inv.duration < MinDuration)

\* C34: an invocation with an empty text, a text of more than 4000
\* characters, a missing reference file or a reference audio shorter than
\* 15 s ends with that error and issues no token, upload, creation or poll
\* request; every invocation that ends with such an error issued none.
C34_LocalErrorsFirst ==
    /\ \A text \in Texts, exists \in BOOLEAN, duration \in Durations :
         LocallyInvalid(InvokeEv(text, exists, duration, "enabled"))
             <=> LocalError(text, exists, duration) # "none"
    /\ (Len(cs.log) > 0 /\ Invoked.ev = "invoke") =>
         /\ LocallyInvalid(Invoked) =>
              /\ cs.pc = "failed"
              /\ Len(cs.log) = 2
              /\ cs.log[2].ev = "invalid"
         /\ \A k \in 1..Len(cs.log) : cs.log[k].ev = "invalid" =>
              /\ LocallyInvalid(Invoked)
              /\ \A j \in 1..Len(cs.log) : cs.log[j].ev \notin RemoteEvents

\* An invocation ended because the reference audio is shorter than 15 s
C34_Witness ==
    /\ cs.pc = "failed"
    /\ Len(cs.log) = 2
    /\ cs.log[2].ev = "invalid"
    /\ cs.log[2].id = "AudioTooShort"
    /\ Invoked.exists
    /\ Invoked.duration = MinDuration - 1

\* ------------------------------------------- claims: the order of the steps
\* The voice id of event k was seen done before it: by the clone poller, or
\* by the status query of the cached id
ObservedDone(log, k) ==
    \E j \in 1..(k - 1) :
        /\ log[j].id = log[k].id
        /\ \/ log[j].ev = "poll_done"
           \/ log[j].ev = "validate" /\ ~log[j].raised /\ log[j].status = 2
EventBefore(log, k, ev) == \E j \in 1..(k - 1) : log[j].ev = ev

\* C35: create_lip_sync sends the job-create request only after the token
\* and after the video upload and then the audio upload returned with the
\* file seen synced, and polls only after the creation succeeded;
\* clone_and_synthesize creates the synthesis job only after the token and
\* with a voice id seen done by the clone poller or by the re-validation of
\* the cached id, creates a voice only after the upload, and downloads only
\* after the synthesis poller returned a url.
C35_StepsInOrder ==
    /\ \A k \in 1..Len(ls.log) :
         /\ ls.log[k].ev = "create" =>
              /\ k = 4
              /\ ls.log[1].ev = "token"
              /\ ls.log[2] = Lev("uploading_video", 1)
              /\ ls.log[3] = Lev("uploading_audio", 1)
         /\ ls.log[k].ev = "created" => (k > 1 /\ ls.log[k - 1].ev = "create")
         /\ ls.log[k].ev = "poll" => (k > 1 /\ ls.log[k - 1].ev = "created")
    /\ ls.pc = "done" => (Len(ls.log) > 0 /\ ls.log[Len(ls.log)].ev = "poll")
    /\ \A k \in 1..Len(cs.log) :
         /\ cs.log[k].ev \in RemoteEvents \ {"token", "token_raised"} =>
              EventBefore(cs.log, k, "token")
         /\ cs.log[k].ev = "create" => cs.log[k - 1].ev = "upload"
         /\ cs.log[k].ev = "poll_done" =>
              (cs.log[k - 1].ev = "create" /\ cs.log[k - 1].id = cs.log[k].id)
         /\ cs.log[k].ev = "synth" =>
              (Truthy(cs.log[k].id) /\ ObservedDone(cs.log, k))
         /\ cs.log[k].ev = "synth_url" => cs.log[k - 1].ev = "synth"
         /\ cs.log[k].ev = "download" => cs.log[k - 1].ev = "synth_url"
    /\ cs.pc = "done" => (Len(cs.log) > 0 /\ cs.log[Len(cs.log)].ev = "download")

\* An invocation that found its voice in the cache, saw it done, and ended
\* with the download
C35_Witness ==
    /\ cs.pc = "done"
    /\ \E k \in 1..Len(cs.log) :
         /\ cs.log[k].ev = "validate" /\ cs.log[k].status = 2
         /\ cs.log[k + 1].ev = "synth"
    /\ cs.log[Len(cs.log)].ev = "download"

\* A lip-sync invocation ended with the result of its poll
LipSyncDone ==
    /\ ls.pc = "done"
    /\ Len(ls.log) = 6

\* ------------------------------- claims: the node and the voice clone cache
PutAfterPoll ==
    \A k \in 1..Len(cs.log) : cs.log[k].ev = "put" =>
        /\ k > 1
        /\ cs.log[k - 1].ev = "poll_done"
        /\ cs.log[k - 1].id = cs.log[k].id
        /\ Truthy(cs.log[k].id)
        /\ Invoked.use_cache = "enabled"
\* The step is one of an invocation that was given use_cache = "disabled"
CacheDisabledStep ==
    /\ Len(cs'.log) > 0
    /\ cs'.log[1].ev = "invoke"
    /\ cs'.log[1].use_cache = "disabled"
\* The step added event ev to the log of the invocation
Logged(ev) ==
    /\ Len(cs'.log) > Len(cs.log)
    /\ cs'.log[Len(cs'.log)].ev = ev

\* C39: the node puts a voice id into the cache only right after
\* _poll_voice_clone returned for that id; the cache file is written only by
\* that put and by the removal of a cached id, so an invocation whose poll
\* raised writes no entry; an invocation with use_cache disabled neither
\* loads nor changes the cache.
C39_PutOnlyAfterPoll ==
    /\ []PutAfterPoll
    /\ [][/\ CacheDisabledStep => UNCHANGED <<_cache, cache_file>>
          /\ cache_file' # cache_file => (Logged("put") \/ Logged("remove"))
          /\ (cs.pc = "poll" /\ cs'.pc = "failed") =>
                UNCHANGED <<_cache, cache_file>>]_vars

\* An invocation put the voice its poller saw done into the cache and ended
\* with the download
C39_Witness ==
    /\ cs.pc = "done"
    /\ \E k \in 1..Len(cs.log) : cs.log[k].ev = "put"
    /\ cache_file # CacheFileMissing

\* ------------------------------------------------ claims: CicadaAuth, part 4
\* The get_token() call observed last sent the refresh request and raised:
\* the request failed, or its answer held no access_token
FailedRefresh ==
    /\ gt.called /\ gt.path = "refresh" /\ gt.requested
    /\ gt.raised \in {"RequestFailed", "EmptyAccessToken"}
\* The step is a get_token() whose refresh fails in one of these ways
RefreshFails ==
    /\ gt'.called /\ gt'.path = "refresh" /\ gt'.requested
    /\ gt'.raised \in {"RequestFailed", "EmptyAccessToken"}
NothingUsableHeld ==
    FailedRefresh => (~TokenUsable(auth, now) /\ gt.ret = NoneVal)

====
